---- MODULE Spec2Model ----
(***************************************************************************)
(* A model of bookkeeper's entry store, mutation queue and undo ledger.    *)
(*                                                                         *)
(* Text is modelled character by character: a string is a sequence of      *)
(* one-character strings, a file is the string of its bytes.  The store    *)
(* files are parsed and written by the operators below exactly as          *)
(* parse_entries / write_entries do it, so that a block string that does   *)
(* not survive the write and the read is visible to the checks.            *)
(***************************************************************************)
EXTENDS Integers, Sequences, FiniteSets, TLC

VARIABLES
    rlFile,      \* bytes of the read-later file (config.read_later_path)
    finFile,     \* bytes of the finished file (config.finished_path)
    queue,       \* AppState.queue: the in-memory Vec<QueuedOp>
    queueFile,   \* the queue persisted at queue_path (the Vec saved last)
    sweep,       \* process_queue's position and locals (pending, remaining)
    undo,        \* AppState.undo: the in-memory Vec<UndoRecord>
    undoFile,    \* the ledger persisted at undo_path
    undoSessions,\* AppState.undo_sessions: the open undos lists, each with its id and records
    session,     \* the list session: its entries snapshot and its view
    now,         \* now_ts(): the wall clock, in seconds
    nextId,      \* the next fresh short_id()
    faults,      \* the I/O errors the file system can still answer with
    hist,        \* the last application of an operation and its outcome (observer)
    swept,       \* the operations the last sweep took, with their results (observer)
    owed,        \* the operations answered with Queued and not applied since (observer)
    log,         \* what the handlers did to each undo record (observer)
    lock,        \* AppState.write_lock: the task holding the guard, or "free"
    tasks,       \* the spawned tasks in flight: each one's position and locals
    peeked,      \* AppState.peeked: the block strings already shown
    prompts,     \* AppState.finish_title_prompts: the chat's pending prompt, if any
    active,      \* AppState.active_sessions: the id of the chat's active session, 0 for none
    resFile      \* bytes of the resource file an AddResource is applied to (op.resource_path)

vars == << rlFile, finFile, queue, queueFile, sweep, undo, undoFile,
           undoSessions, session, now, nextId, faults, hist, swept, owed, log,
           lock, tasks, peeked, prompts, active, resFile >>

----------------------------------------------------------------------------
(* Characters and strings *)

NL == "\n"
DASH == "-"
SPACE == " "

\* The last element of a non-empty sequence.
Last(s) == s[Len(s)]

\* All but the last element of a non-empty sequence.
Front(s) == SubSeq(s, 1, Len(s) - 1)

\* The elements of a sequence.
Range(s) == { s[i] : i \in 1..Len(s) }

\* str::split('\n'): the pieces between newlines; always at least one piece.
RECURSIVE SplitFrom(_, _, _, _)
SplitFrom(s, i, pieces, piece) ==
    IF i > Len(s) THEN Append(pieces, piece)
    ELSE IF s[i] = NL THEN SplitFrom(s, i + 1, Append(pieces, piece), << >>)
    ELSE SplitFrom(s, i + 1, pieces, Append(piece, s[i]))

SplitNL(s) == SplitFrom(s, 1, << >>, << >>)

\* str::lines(): as split('\n'), but a final line ending adds no empty line
\* and the empty string has no lines.
StrLines(s) ==
    IF s = << >> THEN << >>
    ELSE LET p == SplitNL(s) IN
         IF Last(p) = << >> THEN Front(p) ELSE p

\* [String]::join("\n")
RECURSIVE JoinNL(_)
JoinNL(ls) ==
    IF ls = << >> THEN << >>
    ELSE IF Len(ls) = 1 THEN ls[1]
    ELSE ls[1] \o << NL >> \o JoinNL(Tail(ls))

\* normalize_line_endings: replace("\r\n", "\n").replace('\r', "\n").
RECURSIVE ReplaceCR(_)
ReplaceCR(s) ==
    IF s = << >> THEN << >>
    ELSE IF Head(s) = "\r"
         THEN IF Len(s) >= 2 /\ s[2] = NL
              THEN << NL >> \o ReplaceCR(Tail(Tail(s)))
              ELSE << NL >> \o ReplaceCR(Tail(s))
         ELSE << Head(s) >> \o ReplaceCR(Tail(s))

normalize_line_endings(s) ==
    IF \A i \in 1..Len(s) : s[i] # "\r" THEN s ELSE ReplaceCR(s)

\* line.starts_with('-')
StartsWithDash(l) == Len(l) >= 1 /\ l[1] = DASH

----------------------------------------------------------------------------
(* EntryBlock: a sequence of lines *)

\* EntryBlock::from_block
from_block(block) == SplitNL(normalize_line_endings(block))

\* EntryBlock::block_string
block_string(e) == JoinNL(e)

\* The concatenation of the lines of a list of entries.
RECURSIVE FlattenEntries(_)
FlattenEntries(es) ==
    IF es = << >> THEN << >> ELSE Head(es) \o FlattenEntries(Tail(es))

\* The loop of parse_entries over the lines that are left.
RECURSIVE ParseLoop(_, _, _, _, _)
ParseLoop(ls, preamble, entries, current, in_entries) ==
    IF ls = << >>
    THEN [ preamble |-> preamble,
           entries  |-> IF in_entries /\ current # << >>
                        THEN Append(entries, current) ELSE entries ]
    ELSE LET line == Head(ls) IN
         IF StartsWithDash(line)
         THEN ParseLoop(Tail(ls), preamble,
                        IF in_entries /\ current # << >>
                        THEN Append(entries, current) ELSE entries,
                        << line >>, TRUE)
         ELSE IF in_entries
         THEN ParseLoop(Tail(ls), preamble, entries, Append(current, line), TRUE)
         ELSE ParseLoop(Tail(ls), Append(preamble, line), entries, current, FALSE)

\* parse_entries: (preamble lines, entry blocks) of a file's contents.
parse_entries(contents) == ParseLoop(StrLines(contents), << >>, << >>, << >>, FALSE)

\* read_entries: a file that does not exist reads as an empty one.
read_entries(file) == parse_entries(normalize_line_endings(file))

\* write_entries: the bytes written for a preamble and a list of entries.
write_entries(preamble, entries) ==
    LET content == JoinNL(preamble \o FlattenEntries(entries)) IN
    IF content # << >> THEN Append(content, NL) ELSE content

\* The block strings of the entries of a store file, in file order.
Blocks(file) ==
    LET es == read_entries(file).entries IN
    [ i \in 1..Len(es) |-> block_string(es[i]) ]

\* entries.iter().position(|e| e.block_string() == block): 0 when absent.
Position(entries, block) ==
    LET hits == { i \in 1..Len(entries) : block_string(entries[i]) = block } IN
    IF hits = {} THEN 0 ELSE CHOOSE i \in hits : \A j \in hits : i <= j

\* Vec::remove(pos)
RemoveAt(s, pos) == SubSeq(s, 1, pos - 1) \o SubSeq(s, pos + 1, Len(s))

\* A faulty variant of InsertFront: the element goes to the end.
InsertBack(s, x) == Append(s, x)

\* Vec::insert(0, x)
InsertFront(s, x) == << x >> \o s

----------------------------------------------------------------------------
(* The store operations.  st = [rl |-> bytes, fin |-> bytes] are the two   *)
(* store files.  Each *_sync operator gives the run of the function on st: *)
(*   early  - "Duplicate" / "NotFound" when it returns before any write,   *)
(*            "" otherwise;                                                *)
(*   writes - the store files after each write_entries, in the order of    *)
(*            the calls (atomic_write renames a finished temp file, so a   *)
(*            write changes its file wholly or not at all);                *)
(*   out    - the value returned after the last write.                     *)

Returns(st, early) == [ early |-> early, writes |-> << st >>, out |-> early ]

\* add_entry_sync(read_later_path, entry)
add_entry_sync(st, entry) ==
    LET f == read_entries(st.rl)
        block == block_string(entry) IN
    IF \E i \in 1..Len(f.entries) : block_string(f.entries[i]) = block
    THEN Returns(st, "Duplicate")
    ELSE [ early  |-> "",
           writes |-> << [ st EXCEPT !.rl =
                             write_entries(f.preamble, InsertFront(f.entries, entry)) ] >>,
           out    |-> "Added" ]

\* delete_entry_sync(read_later_path, entry_block)
delete_entry_sync(st, entry_block) ==
    LET f == read_entries(st.rl)
        pos == Position(f.entries, entry_block) IN
    IF pos = 0 THEN Returns(st, "NotFound")
    ELSE [ early  |-> "",
           writes |-> << [ st EXCEPT !.rl =
                             write_entries(f.preamble, RemoveAt(f.entries, pos)) ] >>,
           out    |-> "Applied" ]

\* update_entry_sync(read_later_path, entry_block, updated_entry)
update_entry_sync(st, entry_block, updated_entry) ==
    LET f == read_entries(st.rl)
        pos == Position(f.entries, entry_block) IN
    IF pos = 0 THEN Returns(st, "NotFound")
    ELSE [ early  |-> "",
           writes |-> << [ st EXCEPT !.rl =
                             write_entries(f.preamble,
                                           [ f.entries EXCEPT ![pos] = updated_entry ]) ] >>,
           out    |-> "Applied" ]

\* A faulty variant of move_to_finished_sync: read-later is written first,
\* then finished.
move_to_finished_source_first(st, entry_block) ==
    LET rl == read_entries(st.rl)
        pos == Position(rl.entries, entry_block) IN
    IF pos = 0 THEN Returns(st, "NotFound")
    ELSE LET fin    == read_entries(st.fin)
             newFin == write_entries(fin.preamble,
                                     InsertFront(fin.entries, rl.entries[pos]))
             newRl  == write_entries(rl.preamble, RemoveAt(rl.entries, pos)) IN
         [ early  |-> "",
           writes |-> << [ st EXCEPT !.rl = newRl ], [ rl |-> newRl, fin |-> newFin ] >>,
           out    |-> "Applied" ]

\* move_to_finished_sync(read_later, finished, entry_block): the entry goes to
\* the head of finished; finished is written first, then read-later.
move_to_finished_sync(st, entry_block) ==
    LET rl == read_entries(st.rl)
        pos == Position(rl.entries, entry_block) IN
    IF pos = 0 THEN Returns(st, "NotFound")
    ELSE LET fin    == read_entries(st.fin)
             newFin == write_entries(fin.preamble,
                                     InsertFront(fin.entries, rl.entries[pos]))
             newRl  == write_entries(rl.preamble, RemoveAt(rl.entries, pos)) IN
         [ early  |-> "",
           writes |-> << [ st EXCEPT !.fin = newFin ], [ rl |-> newRl, fin |-> newFin ] >>,
           out    |-> "Applied" ]

\* move_to_finished_updated_sync(read_later, finished, entry_block, updated_entry):
\* as move_to_finished_sync, but from_block(updated_entry) is what is inserted.
move_to_finished_updated_sync(st, entry_block, updated_entry) ==
    LET rl == read_entries(st.rl)
        pos == Position(rl.entries, entry_block) IN
    IF pos = 0 THEN Returns(st, "NotFound")
    ELSE LET fin    == read_entries(st.fin)
             newFin == write_entries(fin.preamble,
                                     InsertFront(fin.entries, from_block(updated_entry)))
             newRl  == write_entries(rl.preamble, RemoveAt(rl.entries, pos)) IN
         [ early  |-> "",
           writes |-> << [ st EXCEPT !.fin = newFin ], [ rl |-> newRl, fin |-> newFin ] >>,
           out    |-> "Applied" ]

\* move_to_read_later_sync(read_later, finished, entry_block): the entry goes
\* to the head of read-later; read-later is written first, then finished.
move_to_read_later_sync(st, entry_block) ==
    LET fin == read_entries(st.fin)
        pos == Position(fin.entries, entry_block) IN
    IF pos = 0 THEN Returns(st, "NotFound")
    ELSE LET rl     == read_entries(st.rl)
             newRl  == write_entries(rl.preamble,
                                     InsertFront(rl.entries, fin.entries[pos]))
             newFin == write_entries(fin.preamble, RemoveAt(fin.entries, pos)) IN
         [ early  |-> "",
           writes |-> << [ st EXCEPT !.rl = newRl ], [ rl |-> newRl, fin |-> newFin ] >>,
           out    |-> "Applied" ]

----------------------------------------------------------------------------
(* QueuedOp, with_retries and apply_op *)

NoText == [ some |-> FALSE, text |-> << >> ]
SomeText(t) == [ some |-> TRUE, text |-> t ]

\* QueuedOp { kind, entry, updated_entry }
Op(kind, entry, updated_entry) ==
    [ kind |-> kind, entry |-> entry, updated_entry |-> updated_entry ]

\* The closure apply_op hands to with_retries for the op's kind, run on st.
SyncRun(op, st) ==
    CASE op.kind = "Add" ->
            add_entry_sync(st, from_block(op.entry))
      [] op.kind = "Delete" ->
            delete_entry_sync(st, op.entry)
      [] op.kind = "MoveToFinished" ->
            move_to_finished_sync(st, op.entry)
      [] op.kind = "MoveToFinishedUpdated" ->
            move_to_finished_updated_sync(st, op.entry, op.updated_entry.text)
      [] op.kind = "MoveToReadLater" ->
            move_to_read_later_sync(st, op.entry)
      [] op.kind = "UpdateEntry" ->
            update_entry_sync(st, op.entry, from_block(op.updated_entry.text))

\* Where an I/O error can end an attempt: "read" at the first read of a store
\* file, "write1" at the first write_entries, "write2" at the second (only
\* the moves write twice); "none" lets the attempt run to its end.
Faults == { "none", "read", "write1", "write2" }

\* A faulty variant of Attempt: a run that returns early has rewritten the
\* read-later file without its preamble.
AttemptRewrites(run, st, fault) ==
    IF fault = "read" THEN [ st |-> st, out |-> "Err" ]
    ELSE IF run.early # ""
    THEN [ st  |-> [ st EXCEPT !.rl = write_entries(<< >>, read_entries(st.rl).entries) ],
           out |-> run.early ]
    ELSE IF fault = "write1" THEN [ st |-> st, out |-> "Err" ]
    ELSE IF fault = "write2" /\ Len(run.writes) >= 2
         THEN [ st |-> run.writes[1], out |-> "Err" ]
    ELSE [ st |-> Last(run.writes), out |-> run.out ]

\* The result of one attempt, Ok(out) or Err, and the store files it leaves.
Attempt(run, st, fault) ==
    IF fault = "read" THEN [ st |-> st, out |-> "Err" ]
    ELSE IF run.early # "" THEN [ st |-> st, out |-> run.early ]
    ELSE IF fault = "write1" THEN [ st |-> st, out |-> "Err" ]
    ELSE IF fault = "write2" /\ Len(run.writes) >= 2
         THEN [ st |-> run.writes[1], out |-> "Err" ]
    ELSE [ st |-> Last(run.writes), out |-> run.out ]

RETRY_ATTEMPTS == 3

\* with_retries: every result the loop `for attempt in 0..3` can end with, one
\* for each way the attempts can fail while the file system has `budget` I/O
\* errors left to answer with.  The loop returns at the first attempt that
\* does not fail and gives the last error after the third failure.  `fails`
\* counts the attempts that failed, `attempts` those that were made.
RECURSIVE with_retries(_, _, _, _)
with_retries(op, st, attempt, budget) ==
    LET run   == SyncRun(op, st)
        tries == { Attempt(run, st, f) : f \in Faults }
        ok    == { r \in tries : r.out # "Err" }
        bad   == IF budget > 0 THEN { r \in tries : r.out = "Err" } ELSE { } IN
    { [ st |-> r.st, out |-> r.out, fails |-> attempt, attempts |-> attempt + 1 ] :
        r \in ok }
    \cup
    ( IF attempt + 1 < RETRY_ATTEMPTS
      THEN UNION { with_retries(op, r.st, attempt + 1, budget - 1) : r \in bad }
      ELSE { [ st |-> r.st, out |-> "Err", fails |-> attempt + 1,
               attempts |-> attempt + 1 ] : r \in bad } )

\* apply_op: the results of one application of op under the write lock, with
\* AddOutcome / ModifyOutcome mapped to ApplyOutcome.
apply_op(op, st, budget) ==
    { [ r EXCEPT !.out = IF r.out = "Added" THEN "Applied" ELSE r.out ] :
        r \in with_retries(op, st, 0, budget) }

----------------------------------------------------------------------------
(* Inputs: the texts the operations are submitted with *)

\* "- a" and "- b": one-line entries.
EA == << DASH, SPACE, "a" >>
EB == << DASH, SPACE, "b" >>
\* "- a\n- b": an entry of two lines whose second line starts with "-", as
\* from_text makes it from the message text "a\n- b".
EAB == EA \o << NL >> \o EB

\* The texts an Add is submitted with, and the block strings the other
\* operations look for (the ones a parsed store can hold).
AddTexts == { EA, EB, EAB }
OpEntries == { EA, EB }

\* The store files the model starts from: an optional preamble line and
\* different one-line entries.
InitPreambles == { << >>, << << "#" >> >> }
InitEntryLists ==
    { << >>, << <<EA>> >>, << <<EB>> >>, << <<EA>>, <<EB>> >>, << <<EB>>, <<EA>> >> }
InitFiles == { write_entries(p, es) : p \in InitPreambles, es \in InitEntryLists }

\* The stores hold at most this many entries together.
MaxEntries == 4

EntryCount(st) == Len(Blocks(st.rl)) + Len(Blocks(st.fin))

Stores == [ rl |-> rlFile, fin |-> finFile ]

\* The number of times x occurs in the sequence s.
Count(s, x) == Cardinality({ i \in 1..Len(s) : s[i] = x })

NoDup(s) == \A i, j \in 1..Len(s) : s[i] = s[j] => i = j

\* The operations of the six kinds that rewrite the two stores.
StoreOps ==
    { Op("Add", e, NoText) : e \in AddTexts }
    \cup
    { Op(k, e, NoText) :
        k \in { "Delete", "MoveToFinished", "MoveToReadLater" }, e \in OpEntries }
    \cup
    { Op(k, e, SomeText(u)) :
        k \in { "MoveToFinishedUpdated", "UpdateEntry" }, e \in OpEntries, u \in OpEntries }

\* hist keeps the last application: the operation, its outcome and the store
\* files it started from.
Remember(op, r, st) ==
    << [ op |-> op, out |-> r.out, rl |-> st.rl, fin |-> st.fin ] >>

----------------------------------------------------------------------------
(* SpecStore: operations applied to the stores one after the other *)

Idle == [ pc |-> "idle", pending |-> << >>, remaining |-> << >> ]
NoSession == [ open |-> FALSE ]

\* The I/O errors injected in a behaviour of SpecStore.
StoreFaults == 1

StoreInit ==
    /\ rlFile \in InitFiles
    /\ finFile \in InitFiles
    /\ EntryCount(Stores) < MaxEntries
    /\ queue = << >>
    /\ queueFile = << >>
    /\ sweep = Idle
    /\ undo = << >>
    /\ undoFile = << >>
    /\ undoSessions = { }
    /\ session = NoSession
    /\ now = 0
    /\ nextId = 1
    /\ faults = StoreFaults
    /\ hist = << >>
    /\ swept = << >>
    /\ owed = << >>
    /\ log = << >>
    /\ lock = "free"
    /\ prompts = << >>
    /\ active = 0
    /\ resFile = << >>
    /\ tasks = << >>
    /\ peeked = { }

\* One application of op by apply_op (from apply_user_op or from the sweep).
ApplyOp(op) ==
    \E r \in apply_op(op, Stores, faults) :
        /\ EntryCount(r.st) <= MaxEntries
        /\ rlFile' = r.st.rl
        /\ finFile' = r.st.fin
        /\ faults' = faults - r.fails
        /\ hist' = Remember(op, r, Stores)
        /\ UNCHANGED << lock, tasks, peeked, queue, queueFile, sweep, undo, undoFile, undoSessions,
                        session, now, nextId, swept, owed, log, prompts, active, resFile >>

StoreNext == \E op \in StoreOps : ApplyOp(op)

SpecStore == StoreInit /\ [][StoreNext]_vars

----------------------------------------------------------------------------
(* Claims about the stores, checked under SpecStore *)

BlockSet(file) == Range(Blocks(file))

\* C1: after any sequence of operations, starting from stores without
\* duplicates, neither the read-later store nor the finished store holds two
\* blocks with the same block string.  Stated for the behaviours in which no
\* I/O error occurred, where every operation is applied at its first attempt.
C1_NoDuplicateBlocks ==
    faults = StoreFaults => NoDup(Blocks(rlFile)) /\ NoDup(Blocks(finFile))

\* The step is the second of two applications of Add(e) in a row, the first
\* of them on a store without e, and no attempt of either met an I/O error.
AddedTwice(e) ==
    /\ Len(hist) = 1
    /\ hist[1].op = Op("Add", e, NoText)
    /\ Count(Blocks(hist[1].rl), e) = 0
    /\ Len(hist') = 1
    /\ hist'[1].op = Op("Add", e, NoText)
    /\ hist'[1].rl = rlFile
    /\ faults' = StoreFaults

\* C2: for every entry e not yet in the read-later store, Add(e) twice in a
\* row returns Applied and then Duplicate, and the store then holds exactly
\* one copy of e, at index 0.
C2_AddTwice ==
    [][ \A e \in AddTexts :
          AddedTwice(e) =>
            /\ hist[1].out = "Applied"
            /\ hist'[1].out = "Duplicate"
            /\ Count(Blocks(rlFile'), e) = 1
            /\ Blocks(rlFile')[1] = e ]_vars

\* The step is MoveToReadLater(e), Applied, right after MoveToFinished(e),
\* Applied.
MovedThereAndBack(e) ==
    /\ Len(hist) = 1
    /\ hist[1].op = Op("MoveToFinished", e, NoText)
    /\ hist[1].out = "Applied"
    /\ Len(hist') = 1
    /\ hist'[1].op = Op("MoveToReadLater", e, NoText)
    /\ hist'[1].out = "Applied"
    /\ hist'[1].rl = rlFile

\* C3: MoveToFinished(e) and then MoveToReadLater(e), both Applied, leave the
\* sets of block strings of both stores as they were before the first move.
C3_MoveConservation ==
    [][ \A e \in OpEntries :
          MovedThereAndBack(e) =>
            /\ BlockSet(rlFile') = BlockSet(hist[1].rl)
            /\ BlockSet(finFile') = BlockSet(hist[1].fin) ]_vars

----------------------------------------------------------------------------
(* SpecQueue: apply_user_op calls of the handlers interleaved with the      *)
(* retry sweep.  apply_op runs under write_lock, so applications do not     *)
(* overlap; the sweep takes the queue lock twice, once to take the queue    *)
(* and once to put back what remains, and handlers run in between.  The     *)
(* writes of the queue file are taken to succeed.                           *)

\* A faulty variant of queue_op: the operation is pushed twice.
queue_op_twice(q, op) == Append(Append(q, op), op)

\* queue_op: queue.push(op); the queue is then saved.
queue_op(q, op) == Append(q, op)

\* apply_user_op: every result of submitting op with the stores st and the
\* queue q: the stores and the queue it leaves, whether the queue was saved,
\* and the outcome, Queued when apply_op gave an error.
apply_user_op(op, st, q, budget) ==
    { [ st       |-> r.st,
        out      |-> IF r.out = "Err" THEN "Queued" ELSE r.out,
        queue    |-> IF r.out = "Err" THEN queue_op(q, op) ELSE q,
        saved    |-> r.out = "Err",
        fails    |-> r.fails,
        attempts |-> r.attempts ] : r \in apply_op(op, st, budget) }

\* A faulty variant of keep_failed: an operation that failed is given up.
give_up_failed(remaining, op, out) == remaining

\* A faulty variant of put_back: what was queued during the sweep is lost.
put_back_remaining(remaining, q) == remaining

\* The arms of `match apply_op(..)` in the sweep: Ok(_) => {}, and
\* Err(err) => remaining.push(op).
keep_failed(remaining, op, out) ==
    IF out = "Err" THEN Append(remaining, op) ELSE remaining

\* The queue the sweep leaves: remaining.extend(queue.drain(..)); *queue = remaining.
put_back(remaining, q) == remaining \o q

\* s without the first occurrence of x.
RemoveOne(s, x) ==
    LET hits == { i \in 1..Len(s) : s[i] = x } IN
    IF hits = {} THEN s ELSE RemoveAt(s, CHOOSE i \in hits : \A j \in hits : i <= j)

\* The operations submitted while the sweep runs.
QueueOps ==
    { Op("Add", EA, NoText), Op("Delete", EA, NoText), Op("MoveToReadLater", EA, NoText) }

\* The queues load_queue can start the process with: what an earlier run of
\* the process left in the queue file.
InitQueues ==
    { << >> } \cup { << op >> : op \in QueueOps }
    \cup { << a, b >> : a \in QueueOps, b \in QueueOps }

\* The I/O errors injected in a behaviour of SpecQueue.
QueueFaults == 6

\* hist keeps the last call of apply_user_op: the operation, what was
\* returned, and the attempts that were made and that failed.
Outcome(op, r) ==
    << [ op |-> op, out |-> r.out, fails |-> r.fails, attempts |-> r.attempts ] >>

\* The process starts with the queue load_queue reads from the queue file
\* and with `budget` I/O errors to come.
QueueStart(budget) ==
    /\ rlFile = << >>
    /\ finFile \in { << >>, write_entries(<< >>, << <<EA>> >>) }
    /\ queue \in InitQueues
    /\ queueFile = queue
    /\ sweep = Idle
    /\ undo = << >>
    /\ undoFile = << >>
    /\ undoSessions = { }
    /\ session = NoSession
    /\ now = 0
    /\ nextId = 1
    /\ faults = budget
    /\ hist = << >>
    /\ swept = << >>
    /\ owed = queue
    /\ log = << >>
    /\ lock = "free"
    /\ prompts = << >>
    /\ active = 0
    /\ resFile = << >>
    /\ tasks = << >>
    /\ peeked = { }

QueueInit == QueueStart(QueueFaults)

\* A handler submits op through apply_user_op.
Submit(op) ==
    \E r \in apply_user_op(op, Stores, queue, faults) :
        /\ rlFile' = r.st.rl
        /\ finFile' = r.st.fin
        /\ queue' = r.queue
        /\ queueFile' = IF r.saved THEN r.queue ELSE queueFile
        /\ faults' = faults - r.fails
        /\ hist' = Outcome(op, r)
        /\ owed' = IF r.out = "Queued" THEN Append(owed, op) ELSE owed
        /\ UNCHANGED << lock, tasks, peeked, sweep, undo, undoFile, undoSessions, session, now, nextId,
                        swept, log, prompts, active, resFile >>

\* process_queue, first part: std::mem::take of the queue under its lock; an
\* empty queue ends the sweep at once.
SweepTake ==
    /\ sweep.pc = "idle"
    /\ queue # << >>
    /\ sweep' = [ pc |-> "apply", pending |-> queue, remaining |-> << >> ]
    /\ queue' = << >>
    /\ swept' = [ i \in 1..Len(queue) |-> [ op |-> queue[i], out |-> "pending" ] ]
    /\ UNCHANGED << lock, tasks, peeked, rlFile, finFile, queueFile, undo, undoFile, undoSessions,
                    session, now, nextId, faults, hist, owed, log, prompts,
                    active, resFile >>

\* process_queue, one turn of `for op in pending`.
SweepApply ==
    /\ sweep.pc = "apply"
    /\ sweep.pending # << >>
    /\ LET op == Head(sweep.pending) IN
       \E r \in apply_op(op, Stores, faults) :
           /\ rlFile' = r.st.rl
           /\ finFile' = r.st.fin
           /\ faults' = faults - r.fails
           /\ sweep' = [ sweep EXCEPT
                           !.pending = Tail(sweep.pending),
                           !.remaining = keep_failed(sweep.remaining, op, r.out) ]
           /\ swept' = [ swept EXCEPT
                           ![Len(swept) - Len(sweep.pending) + 1].out = r.out ]
           /\ owed' = IF r.out = "Err" THEN owed ELSE RemoveOne(owed, op)
    /\ UNCHANGED << lock, tasks, peeked, queue, queueFile, undo, undoFile, undoSessions, session, now,
                    nextId, hist, log, prompts, active, resFile >>

\* process_queue, last part: under the queue lock, what was queued meanwhile
\* is put behind what remains, and the queue is saved.
SweepFinish ==
    /\ sweep.pc = "apply"
    /\ sweep.pending = << >>
    /\ queue' = put_back(sweep.remaining, queue)
    /\ queueFile' = queue'
    /\ sweep' = Idle
    /\ UNCHANGED << lock, tasks, peeked, rlFile, finFile, undo, undoFile, undoSessions, session, now,
                    nextId, faults, hist, swept, owed, log, prompts, active, resFile >>

QueueNext ==
    \/ \E op \in QueueOps : Submit(op)
    \/ SweepTake
    \/ SweepApply
    \/ SweepFinish

SpecQueue == QueueInit /\ [][QueueNext]_vars

----------------------------------------------------------------------------
(* Claims about the queue, checked under SpecQueue *)

\* C7: at every moment, every operation that was answered with Queued and
\* has not been applied since is in the persisted queue file, as often as it
\* is owed.
C7_QueuedOpsPersisted ==
    \A op \in QueueOps : Count(owed, op) <= Count(queueFile, op)

\* The step is a call of apply_user_op: the sweep does not move.
SubmitStep == sweep' = sweep /\ hist' # << >>

OpsOf(t) == [ i \in 1..Len(t) |-> t[i].op ]

\* The operations the last sweep took whose apply_op gave an error, in order.
Errored == OpsOf(SelectSeq(swept, LAMBDA x : x.out = "Err"))

\* The step is the end of process_queue.
FinishStep == sweep.pc = "apply" /\ sweep'.pc = "idle"

\* C9: when process_queue finishes, every operation it took has been through
\* apply_op, and the queue is the operations whose apply_op gave an error, in
\* their order, followed by the operations queued while the sweep ran; the
\* operations that are gone are those whose apply_op returned a value.
C9_SweepKeepsFailed ==
    [][ FinishStep =>
          /\ \A i \in 1..Len(swept) : swept[i].out # "pending"
          /\ queue' = Errored \o queue
          /\ queueFile' = queue' ]_vars

\* A sweep has finished that took an operation whose apply_op gave an error
\* and one whose apply_op returned a value, while another was queued.
C9_Witness ==
    /\ sweep.pc = "idle"
    /\ \E i, j \in 1..Len(swept) :
          swept[i].out = "Err" /\ swept[j].out \in { "Applied", "Duplicate", "NotFound" }
    /\ Len(queue) > Len(Errored)
    /\ SubSeq(queue, 1, Len(Errored)) = Errored
    /\ queueFile = queue

----------------------------------------------------------------------------
(* SpecQueueFair: SpecQueue with the retry loop kept running.  start_retry_ *)
(* loop calls process_queue at every tick of its interval, for ever, so     *)
(* each part of the sweep happens when it can.  The I/O errors are finitely *)
(* many: the store writes stop failing when `faults` is used up.            *)

\* The I/O errors injected in a behaviour of SpecQueueFair.
FairFaults == 3

QueueFairInit == QueueStart(FairFaults)

\* ENABLED <<SweepApply>>_vars: apply_op always returns, and the turn of the
\* loop takes the operation off `pending`.
SweepApplyEnabled == sweep.pc = "apply" /\ sweep.pending # << >>

\* WF_vars(SweepApply), written out with SweepApplyEnabled.
SweepApplyFair == []<>(~SweepApplyEnabled) \/ []<><<SweepApply>>_vars

SpecQueueFair ==
    /\ QueueFairInit
    /\ [][QueueNext]_vars
    /\ WF_vars(SweepTake)
    /\ SweepApplyFair
    /\ WF_vars(SweepFinish)

\* C10: with the sweep running for ever and finitely many I/O errors, every
\* operation that is in the queue is applied in the end, and is then neither
\* queued nor owed any more.
C10_QueuedEventuallyApplied ==
    \A op \in QueueOps :
        (op \in Range(queue)) ~> (op \notin Range(queue) /\ op \notin Range(owed))

\* An operation that failed in a sweep, with all the I/O errors there are, was
\* applied by a later sweep, and nothing is owed.
C10_Witness ==
    /\ faults = 0
    /\ sweep.pc = "idle"
    /\ Len(swept) = 1
    /\ swept[1].out = "Applied"
    /\ queue = << >>
    /\ owed = << >>
    /\ hist = << >>

----------------------------------------------------------------------------
(* The undo ledger and the list session *)

UNDO_TTL_SECS == 30 * 60
DELETE_CONFIRM_TTL_SECS == 5 * 60

\* prune_undo at the time t: undo.retain(|r| r.expires_at > now).
prune_undo(u, t) == SelectSeq(u, LAMBDA r : r.expires_at > t)

\* add_undo at the time t, with `id` the fresh short_id(): the pruned ledger
\* with the new record pushed.
add_undo(u, id, kind, entry, t) ==
    Append(prune_undo(u, t),
           [ id |-> id, kind |-> kind, entry |-> entry,
             expires_at |-> t + UNDO_TTL_SECS ])

\* A faulty variant of without_id: the ledger is emptied.
without_any(u, id) == << >>

\* undo.retain(|r| r.id != id), and undo.remove(pos) of the record with id.
without_id(u, id) == SelectSeq(u, LAMBDA r : r.id # id)

\* The operation that takes a record back: `match record.kind`.
reversal(record) ==
    IF record.kind = "MoveToFinished"
    THEN Op("MoveToReadLater", record.entry, NoText)
    ELSE Op("Add", record.entry, NoText)

\* The ListView values of the session.
Menu == [ kind |-> "Menu", index |-> 0, step |-> 0, expires_at |-> 0 ]
Selected(index) == [ kind |-> "Selected", index |-> index, step |-> 0, expires_at |-> 0 ]
DeleteConfirm(index, step, expires_at) ==
    [ kind |-> "DeleteConfirm", index |-> index, step |-> step, expires_at |-> expires_at ]

\* The ids of the records of a ledger.
Ids(u) == { u[i].id : i \in 1..Len(u) }

\* hist in SpecUndo: the handler that ran last, the undo record or session it
\* was called for, the outcome of the operation it submitted ("" when it
\* submitted none) and what it answered.
Ran(handler, id, out, reply) ==
    << [ handler |-> handler, id |-> id, out |-> out, reply |-> reply ] >>

\* log in SpecUndo: the reversals submitted, each with the id of its undo
\* record and the handler that submitted it.
Submitted(id, via, op, out) == [ id |-> id, via |-> via, op |-> op, out |-> out ]

----------------------------------------------------------------------------
(* SpecUndo: one chat deleting entries through its list session and taking  *)
(* the deletions back, by the undo button of a record and through the       *)
(* lists the /undos command opens.  Indices are counted from 1 here.  A     *)
(* handler reads the clock once, except handle_undo_callback, whose second  *)
(* reading can be later than its first.  The store files do not fail here.  *)

\* The short_id()s there are, for undo records and undos lists.
MaxIds == 3

\* The clock does not pass this time.
MaxNow == 1801

\* No confirmation is asked for after this time.
MaxAskAt == 0

\* The buttons of an undos list that are pressed: those of its first records.
MaxIndex == 2

UndoInitFiles ==
    { write_entries(<< >>, es) : es \in { << <<EA>> >>, << <<EA>>, <<EB>> >> } }

UndoInit ==
    /\ rlFile \in UndoInitFiles
    /\ finFile = << >>
    /\ queue = << >>
    /\ queueFile = << >>
    /\ sweep = Idle
    /\ undo = << >>
    /\ undoFile = << >>
    /\ undoSessions = { }
    /\ session = NoSession
    /\ now = 0
    /\ nextId = 1
    /\ faults = 0
    /\ hist = << >>
    /\ swept = << >>
    /\ owed = << >>
    /\ log = << >>
    /\ lock = "free"
    /\ prompts = << >>
    /\ active = 0
    /\ resFile = << >>
    /\ tasks = << >>
    /\ peeked = { }

\* What a call of apply_user_op with the result r leaves of the stores and
\* the queue.
Applies(r) ==
    /\ rlFile' = r.st.rl
    /\ finFile' = r.st.fin
    /\ queue' = r.queue
    /\ queueFile' = (IF r.saved THEN r.queue ELSE queueFile)
    /\ faults' = faults - r.fails

\* handle_quick_select_command: a new session on the entries read now, with
\* the entry at quick_select_index selected.
QuickSelect ==
    LET entries == read_entries(rlFile).entries IN
    /\ IF entries = << >>
       THEN /\ hist' = Ran("quick_select", 0, "", "Read Later is empty.")
            /\ UNCHANGED session
       ELSE \E index \in 1..Len(entries) :
            /\ session' = [ open |-> TRUE, entries |-> entries, view |-> Selected(index) ]
            /\ hist' = Ran("quick_select", 0, "", "")
    /\ UNCHANGED << lock, tasks, peeked, rlFile, finFile, queue, queueFile, sweep, undo, undoFile,
                    undoSessions, now, nextId, faults, swept, owed, log,
                    prompts, active, resFile >>

\* handle_list_callback, "delete": the first confirmation is asked for.
DeleteAsk ==
    /\ session.open
    /\ session.view.kind = "Selected"
    /\ now <= MaxAskAt
    /\ session' = [ session EXCEPT !.view =
                      DeleteConfirm(session.view.index, 1, now + DELETE_CONFIRM_TTL_SECS) ]
    /\ hist' = Ran("delete", 0, "", "")
    /\ UNCHANGED << lock, tasks, peeked, rlFile, finFile, queue, queueFile, sweep, undo, undoFile,
                    undoSessions, now, nextId, faults, swept, owed, log,
                    prompts, active, resFile >>

\* handle_list_callback, "del1": the second confirmation is asked for, with
\* the expires_at of the first.
Del1 ==
    /\ session.open
    /\ session.view.kind = "DeleteConfirm"
    /\ IF now > session.view.expires_at
       THEN /\ session' = [ session EXCEPT !.view = Selected(session.view.index) ]
            /\ hist' = Ran("del1", 0, "", "Delete confirmation expired.")
       ELSE /\ session' = [ session EXCEPT !.view.step = 2 ]
            /\ hist' = Ran("del1", 0, "", "")
    /\ UNCHANGED << lock, tasks, peeked, rlFile, finFile, queue, queueFile, sweep, undo, undoFile,
                    undoSessions, now, nextId, faults, swept, owed, log,
                    prompts, active, resFile >>

\* handle_list_callback, "del2": the selected entry is deleted; when it was,
\* it leaves the session and add_undo records the deletion.
Del2 ==
    /\ session.open
    /\ session.view.kind = "DeleteConfirm"
    /\ nextId <= MaxIds
    /\ LET index == session.view.index
           entry_block == block_string(session.entries[index])
           op == Op("Delete", entry_block, NoText) IN
       IF now > session.view.expires_at
       THEN /\ session' = [ session EXCEPT !.view = Selected(index) ]
            /\ hist' = Ran("del2", 0, "", "Delete confirmation expired.")
            /\ UNCHANGED << rlFile, finFile, queue, queueFile, faults, undo,
                            undoFile, nextId >>
       ELSE \E r \in apply_user_op(op, Stores, queue, faults) :
            /\ Applies(r)
            /\ IF r.out = "Applied"
               THEN /\ session' = [ session EXCEPT
                                      !.entries = RemoveAt(session.entries, index),
                                      !.view = Menu ]
                    /\ undo' = add_undo(undo, nextId, "Delete", entry_block, now)
                    /\ undoFile' = undo'
                    /\ nextId' = nextId + 1
                    /\ hist' = Ran("del2", nextId, r.out, "")
               ELSE /\ session' = IF r.out = "Duplicate" THEN session
                                  ELSE [ session EXCEPT !.view = Selected(index) ]
                    /\ hist' = Ran("del2", 0, r.out,
                                   IF r.out = "NotFound" THEN "Item not found."
                                   ELSE IF r.out = "Queued"
                                   THEN "Write failed; queued for retry." ELSE "")
                    /\ UNCHANGED << undo, undoFile, nextId >>
    /\ UNCHANGED << lock, tasks, peeked, sweep, undoSessions, now, swept, owed, log,
                    prompts, active, resFile >>

\* The times at which a record or a confirmation expires.
Deadlines ==
    { undo[i].expires_at : i \in 1..Len(undo) }
    \cup UNION { { u.records[i].expires_at : i \in 1..Len(u.records) } : u \in undoSessions }
    \cup ( IF session.open /\ session.view.kind = "DeleteConfirm"
           THEN { session.view.expires_at } ELSE { } )

\* The times the clock is read at after now: a deadline, the second before
\* it or the second after it.
Later ==
    { t \in UNION { { d - 1, d, d + 1 } : d \in Deadlines } : t > now /\ t <= MaxNow }

\* The seconds a handler can take between two readings of the clock.
MaxLag == 2

\* What handle_undo_callback answers after an operation was submitted.
UndoReply(out) == IF out = "Queued" THEN "Write failed; queued for retry." ELSE "Undone."

\* handle_undo_callback for the button `action` of the record id: the record
\* leaves the pruned ledger, and "undo" submits its reversal unless the clock
\* has passed expires_at by then.
Undo(id, action) ==
    LET pruned == prune_undo(undo, now)
        found  == id \in Ids(pruned)
        rest   == without_id(pruned, id) IN
    /\ undo' = rest
    /\ undoFile' = rest
    /\ IF action = "delete"
       THEN /\ hist' = Ran("undo:delete", id, "", "")
            /\ UNCHANGED << rlFile, finFile, queue, queueFile, faults, now, log >>
       ELSE IF ~found
       THEN /\ hist' = Ran("undo", id, "", "Undo not found.")
            /\ UNCHANGED << rlFile, finFile, queue, queueFile, faults, now, log >>
       ELSE LET record == CHOOSE r \in Range(pruned) : r.id = id IN
            \E t \in { now } \cup { l \in Later : l - now <= MaxLag } :
            /\ now' = t
            /\ IF record.expires_at < t
               THEN /\ hist' = Ran("undo", id, "", "Undo expired.")
                    /\ UNCHANGED << rlFile, finFile, queue, queueFile, faults, log >>
               ELSE \E r \in apply_user_op(reversal(record), Stores, queue, faults) :
                    /\ Applies(r)
                    /\ log' = Append(log, Submitted(id, "undo", reversal(record), r.out))
                    /\ hist' = Ran("undo", id, r.out, UndoReply(r.out))
    /\ UNCHANGED << lock, tasks, peeked, sweep, undoSessions, session, nextId, swept, owed,
                    prompts, active, resFile >>

\* handle_undos_command: the pruned ledger is saved, and shown in a new undos
\* list that keeps a copy of its records.
UndosCommand ==
    LET records == prune_undo(undo, now) IN
    /\ undo' = records
    /\ undoFile' = records
    /\ IF records = << >>
       THEN /\ hist' = Ran("undos", 0, "", "No undos.")
            /\ UNCHANGED << undoSessions, nextId >>
       ELSE /\ nextId <= MaxIds
            /\ undoSessions' = undoSessions \cup { [ id |-> nextId, records |-> records ] }
            /\ nextId' = nextId + 1
            /\ hist' = Ran("undos", nextId, "", "")
    /\ UNCHANGED << lock, tasks, peeked, rlFile, finFile, queue, queueFile, sweep, session, now, faults,
                    swept, owed, log, prompts, active, resFile >>

UndosActions == { "close", "undo", "delete" }

\* handle_undos_callback for a button of the undos list session_id: the list
\* is closed; "undo" takes the record at index of the list's copy out of the
\* pruned ledger and submits its reversal; "delete" only takes it out.
UndosCallback(session_id, action, index) ==
    /\ \E u \in undoSessions :
        /\ u.id = session_id
        /\ undoSessions' = undoSessions \ { u }
        /\ IF action = "close" \/ index > Len(u.records)
           THEN /\ hist' = Ran("undos:" \o action, 0, "", "")
                /\ UNCHANGED << rlFile, finFile, queue, queueFile, faults, undo,
                                undoFile, log >>
           ELSE LET record == u.records[index]
                    rest == without_id(prune_undo(undo, now), record.id) IN
                /\ undo' = rest
                /\ undoFile' = rest
                /\ IF action = "delete"
                   THEN /\ hist' = Ran("undos:delete", record.id, "", "")
                        /\ UNCHANGED << rlFile, finFile, queue, queueFile, faults, log >>
                   ELSE \E r \in apply_user_op(reversal(record), Stores, queue, faults) :
                        /\ Applies(r)
                        /\ log' = Append(log, Submitted(record.id, "undos",
                                                        reversal(record), r.out))
                        /\ hist' = Ran("undos:undo", record.id, r.out, UndoReply(r.out))
    /\ UNCHANGED << lock, tasks, peeked, sweep, session, now, nextId, swept, owed,
                    prompts, active, resFile >>

\* Time passes, up to the next reading of the clock.
Tick ==
    /\ \E t \in Later : now' = t
    /\ hist' = Ran("tick", 0, "", "")
    /\ UNCHANGED << lock, tasks, peeked, rlFile, finFile, queue, queueFile, sweep, undo, undoFile,
                    undoSessions, session, nextId, faults, swept, owed, log,
                    prompts, active, resFile >>

UndoNext ==
    \/ QuickSelect
    \/ DeleteAsk
    \/ Del1
    \/ Del2
    \/ \E id \in 1..MaxIds, action \in { "undo", "delete" } : Undo(id, action)
    \/ UndosCommand
    \/ \E session_id \in 1..MaxIds, action \in UndosActions, index \in 1..MaxIndex :
          UndosCallback(session_id, action, index)
    \/ Tick

SpecUndo == UndoInit /\ [][UndoNext]_vars

----------------------------------------------------------------------------
(* Claims about undo, checked under SpecUndo *)

\* The step is a del2 that deleted the entry it shows.
Del2Applied == hist'[1].handler = "del2" /\ hist'[1].out = "Applied"

\* The step is an undo by id that submitted the reversal of a Delete record.
UndoOfDelete ==
    /\ hist'[1].handler = "undo"
    /\ hist'[1].out # ""
    /\ \E i \in 1..Len(undo) : undo[i].id = hist'[1].id /\ undo[i].kind = "Delete"

\* C4: a del2 that deleted the entry e appends a record of kind Delete with
\* the block string of e to the ledger and saves it; the undo of that record
\* submits Add(e), which is applied when e is not in the read-later store, and
\* when it is applied e is at index 0 with the other entries behind it in the
\* order they had.
C4_DeleteThenUndoRestores ==
    [][ /\ Del2Applied =>
            LET e == block_string(session.entries[session.view.index]) IN
            /\ undo' # << >>
            /\ Last(undo') = [ id |-> hist'[1].id, kind |-> "Delete", entry |-> e,
                               expires_at |-> now + UNDO_TTL_SECS ]
            /\ \A i \in 1..Len(undo) : undo[i].id # hist'[1].id
            /\ undoFile' = undo'
        /\ UndoOfDelete =>
            LET record == CHOOSE r \in Range(undo) : r.id = hist'[1].id
                before == Blocks(rlFile) IN
            /\ log' = Append(log, Submitted(record.id, "undo",
                                            Op("Add", record.entry, NoText), hist'[1].out))
            /\ record.entry \notin Range(before) => hist'[1].out = "Applied"
            /\ hist'[1].out = "Applied" =>
                  /\ Blocks(rlFile') = << record.entry >> \o before
                  /\ finFile' = finFile ]_vars

\* The entry "- a" was deleted from a store that had another entry before
\* it, and the undo of the record has put it back in front of that entry.
C4_Witness ==
    /\ hist # << >>
    /\ hist[1].handler = "undo"
    /\ hist[1].out = "Applied"
    /\ log # << >>
    /\ Last(log).op = Op("Add", EA, NoText)
    /\ Blocks(rlFile) = << EA, EB >>

\* C5: the reversal of an undo record is submitted at most once, whatever the
\* undo buttons and the undos lists it is asked for through.
C5_ReversalAtMostOnce ==
    \A id \in 1..MaxIds : Cardinality({ i \in 1..Len(log) : log[i].id = id }) <= 1

\* The step is an undo by id of a record that an earlier undo by id has
\* taken out of the ledger.
SecondUndo ==
    /\ hist'[1].handler = "undo"
    /\ \E i \in 1..Len(log) : log[i].id = hist'[1].id /\ log[i].via = "undo"

\* C6, as it is stated: a second undo of an id answers "Undo not found.",
\* submits nothing and leaves the stores and the ledger as they were.
C6_SecondUndoChangesNothing ==
    [][ SecondUndo =>
          /\ hist'[1].reply = "Undo not found."
          /\ hist'[1].out = ""
          /\ log' = log
          /\ rlFile' = rlFile /\ finFile' = finFile
          /\ queue' = queue
          /\ undo' = undo
          /\ undoFile' = undoFile ]_vars

\* C6, amended: a second undo of an id answers "Undo not found.", submits
\* nothing and leaves the stores as they were; of the ledger it keeps, in
\* their order, the records that have not expired, and it saves that.
C6_SecondUndoOnlyPrunes ==
    [][ SecondUndo =>
          /\ hist'[1].reply = "Undo not found."
          /\ hist'[1].out = ""
          /\ log' = log
          /\ rlFile' = rlFile /\ finFile' = finFile
          /\ queue' = queue
          /\ undo' = SelectSeq(undo, LAMBDA r : r.expires_at > now)
          /\ undoFile' = undo' ]_vars

\* A second undo of an id has answered "Undo not found." while the ledger
\* holds another record.
C6_Witness ==
    /\ hist # << >>
    /\ hist[1].handler = "undo"
    /\ hist[1].reply = "Undo not found."
    /\ \E i \in 1..Len(log) : log[i].id = hist[1].id /\ log[i].via = "undo"
    /\ undo # << >>

----------------------------------------------------------------------------
(* EntryBlock::from_text and the URL import *)

TAB == "\t"

\* str::trim_start
RECURSIVE TrimStart(_)
TrimStart(s) ==
    IF s # << >> /\ Head(s) \in { SPACE, TAB } THEN TrimStart(Tail(s)) ELSE s

\* first.starts_with("- ")
StartsWithDashSpace(l) == Len(l) >= 2 /\ l[1] = DASH /\ l[2] = SPACE

\* EntryBlock::from_text: the lines of the text, the first one made to start
\* with "- ".
from_text(text) ==
    LET lines == SplitNL(normalize_line_endings(text))
        first == lines[1] IN
    IF StartsWithDashSpace(first) THEN lines
    ELSE IF StartsWithDash(first)
    THEN [ lines EXCEPT ![1] = << DASH, SPACE >> \o TrimStart(Tail(first)) ]
    ELSE [ lines EXCEPT ![1] = << DASH, SPACE >> \o first ]

\* The loop of prepend_urls_to_read_later_sync over the urls that are left:
\* `existing` are the block strings seen so far, `new_entries` the entries to
\* insert, in input order.
RECURSIVE PrependLoop(_, _, _, _)
PrependLoop(urls, existing, new_entries, duplicate_count) ==
    IF urls = << >>
    THEN [ new_entries |-> new_entries, duplicate_count |-> duplicate_count ]
    ELSE LET entry == from_text(Head(urls))
             block == block_string(entry) IN
         IF block \notin existing
         THEN PrependLoop(Tail(urls), existing \cup { block },
                          Append(new_entries, entry), duplicate_count)
         ELSE PrependLoop(Tail(urls), existing, new_entries, duplicate_count + 1)

\* A faulty variant of PrependAll: the new entries go in reversed.
RECURSIVE PrependReversed(_, _)
PrependReversed(new_entries, entries) ==
    IF new_entries = << >> THEN entries
    ELSE PrependReversed(Tail(new_entries), InsertFront(entries, Head(new_entries)))

\* for entry in new_entries.iter().rev() { entries.insert(0, entry) }
RECURSIVE PrependAll(_, _)
PrependAll(new_entries, entries) ==
    IF new_entries = << >> THEN entries
    ELSE PrependAll(Front(new_entries), InsertFront(entries, Last(new_entries)))

\* prepend_urls_to_read_later_sync(path, urls) on the bytes `file` of the
\* read-later file: the bytes it leaves (`wrote` tells whether write_entries
\* ran) and the two counts it returns.
prepend_urls_to_read_later_sync(file, urls) ==
    LET f == read_entries(file)
        r == PrependLoop(urls, Range(Blocks(file)), << >>, 0) IN
    [ file      |-> IF r.new_entries # << >>
                    THEN write_entries(f.preamble, PrependAll(r.new_entries, f.entries))
                    ELSE file,
      wrote     |-> r.new_entries # << >>,
      added     |-> Len(r.new_entries),
      duplicate |-> r.duplicate_count ]

\* The texts of the imported URLs; from_text(UA) is the entry "- a".
UA == << "a" >>
UB == << "b" >>
UC == << "c" >>

----------------------------------------------------------------------------
(* SpecLock: store mutations running as concurrent tasks.  A task running  *)
(* apply_op waits for the write lock, reads the store files, writes them   *)
(* and drops the guard; the task spawned by handle_sync_x_cookie_response  *)
(* runs run_sync_x, which reads and writes the read-later file.            *)

NoTask == [ pc |-> "none" ]

\* The tasks that call apply_op (a handler through apply_user_op, and the
\* retry sweep) and the task that runs run_sync_x.
ApplyTasks == { "handler", "sweep" }
ImportTask == "sync_x"

LockOps ==
    { Op("Add", EB, NoText), Op("Delete", EA, NoText),
      Op("MoveToFinished", EA, NoText) }
ImportUrls == { << UA >>, << UA, UC >> }

LockInit ==
    /\ rlFile \in { << >>, write_entries(<< >>, << <<EA>> >>) }
    /\ finFile = << >>
    /\ queue = << >>
    /\ queueFile = << >>
    /\ sweep = Idle
    /\ undo = << >>
    /\ undoFile = << >>
    /\ undoSessions = { }
    /\ session = NoSession
    /\ now = 0
    /\ nextId = 1
    /\ faults = 0
    /\ hist = << >>
    /\ swept = << >>
    /\ owed = << >>
    /\ log = << >>
    /\ lock = "free"
    /\ prompts = << >>
    /\ active = 0
    /\ resFile = << >>
    /\ tasks = [ t \in ApplyTasks \cup { ImportTask } |-> NoTask ]
    /\ peeked = { }

LockFrame ==
    UNCHANGED << queue, queueFile, sweep, undo, undoFile, undoSessions, session,
                 now, nextId, faults, swept, owed, log, peeked, prompts, active, resFile >>

\* apply_op is called with op: the task waits at write_lock.lock().await.
ApplyCall(t, op) ==
    /\ tasks[t] = NoTask
    /\ tasks' = [ tasks EXCEPT ![t] = [ pc |-> "wait", op |-> op ] ]
    /\ UNCHANGED << rlFile, finFile, lock, hist >>
    /\ LockFrame

\* let _guard = state.write_lock.lock().await
ApplyLock(t) ==
    /\ tasks[t].pc = "wait"
    /\ lock = "free"
    /\ lock' = t
    /\ tasks' = [ tasks EXCEPT ![t].pc = "locked" ]
    /\ UNCHANGED << rlFile, finFile, hist >>
    /\ LockFrame

\* The read_entries calls of the op's *_sync function.
ApplyRead(t) ==
    /\ tasks[t].pc = "locked"
    /\ tasks' = [ tasks EXCEPT ![t] =
                    [ pc |-> "read", op |-> tasks[t].op, seen |-> Stores ] ]
    /\ UNCHANGED << rlFile, finFile, lock, hist >>
    /\ LockFrame

\* The write_entries calls of the op's *_sync function, on what the task
\* read; then apply_op returns and the guard is dropped.  A file the
\* function does not write keeps its bytes.
ApplyWrite(t) ==
    /\ tasks[t].pc = "read"
    /\ LET seen == tasks[t].seen
           run  == SyncRun(tasks[t].op, seen)
           out  == Last(run.writes) IN
       /\ rlFile' = IF out.rl # seen.rl THEN out.rl ELSE rlFile
       /\ finFile' = IF out.fin # seen.fin THEN out.fin ELSE finFile
       /\ hist' = << [ task |-> t, out |-> run.out ] >>
    /\ lock' = "free"
    /\ tasks' = [ tasks EXCEPT ![t] = NoTask ]
    /\ LockFrame

\* run_sync_x reaches prepend_urls_to_read_later_sync with the urls read
\* from the bookmarks file, and the function reads the read-later file.
ImportRead(urls) ==
    /\ tasks[ImportTask] = NoTask
    /\ tasks' = [ tasks EXCEPT ![ImportTask] =
                    [ pc |-> "read", urls |-> urls, seen |-> Stores ] ]
    /\ UNCHANGED << rlFile, finFile, lock, hist >>
    /\ LockFrame

\* prepend_urls_to_read_later_sync writes the read-later file (when there is
\* a new entry) and returns.
ImportWrite ==
    /\ tasks[ImportTask].pc = "read"
    /\ LET r == prepend_urls_to_read_later_sync(tasks[ImportTask].seen.rl,
                                                tasks[ImportTask].urls) IN
       /\ Len(Blocks(r.file)) + Len(Blocks(finFile)) <= MaxEntries
       /\ rlFile' = IF r.wrote THEN r.file ELSE rlFile
       /\ hist' = << [ task |-> ImportTask, out |-> r.added ] >>
    /\ tasks' = [ tasks EXCEPT ![ImportTask] = NoTask ]
    /\ UNCHANGED << finFile, lock >>
    /\ LockFrame

LockNext ==
    \/ \E t \in ApplyTasks, op \in LockOps : ApplyCall(t, op)
    \/ \E t \in ApplyTasks : ApplyLock(t)
    \/ \E t \in ApplyTasks : ApplyRead(t)
    \/ \E t \in ApplyTasks : ApplyWrite(t)
    \/ \E urls \in ImportUrls : ImportRead(urls)
    \/ ImportWrite

SpecLock == LockInit /\ [][LockNext]_vars

\* A task is in its read-modify-write section from its read of the store
\* files to its write.
InRmw(t) == tasks[t].pc = "read"

\* C11: every path that rewrites a store file runs its read-modify-write
\* under the write lock, so no two tasks are in their read-modify-write
\* sections at the same time (apply_op from a handler, apply_op from the
\* sweep, the URL import).
C11_RmwSectionsSerial ==
    \A t, u \in DOMAIN tasks : (InRmw(t) /\ InRmw(u)) => t = u

----------------------------------------------------------------------------
(* The list session: paging and the views.  Entry indices and pick         *)
(* positions are counted from 1, pages from 0 as in the code.              *)

PAGE_SIZE == 3

Min(a, b) == IF a <= b THEN a ELSE b

\* usize::saturating_sub(1)
SatPred(n) == IF n > 0 THEN n - 1 ELSE 0

\* Vec::reverse
Reverse(s) == [ i \in 1..Len(s) |-> s[Len(s) + 1 - i] ]

\* The indices from i on of the entries whose block string is not in peeked.
RECURSIVE UnpeekedFrom(_, _, _)
UnpeekedFrom(entries, pk, i) ==
    IF i > Len(entries) THEN << >>
    ELSE ( IF block_string(entries[i]) \notin pk THEN << i >> ELSE << >> )
         \o UnpeekedFrom(entries, pk, i + 1)

\* ordered_unpeeked_indices
ordered_unpeeked_indices(entries, pk, mode) ==
    LET indices == UnpeekedFrom(entries, pk, 1) IN
    IF mode = "Bottom" THEN Reverse(indices) ELSE indices

\* ordered_indices
ordered_indices(entries, mode) ==
    LET indices == [ i \in 1..Len(entries) |-> i ] IN
    IF mode = "Bottom" THEN Reverse(indices) ELSE indices

\* A faulty variant of PageOf: the page starts one index too late.
PageOfShifted(ordered, page) ==
    LET start == page * PAGE_SIZE + 1 IN
    IF ordered = << >> \/ start >= Len(ordered) THEN << >>
    ELSE SubSeq(ordered, start + 1, Min(start + PAGE_SIZE, Len(ordered)))

\* ordered[start..end] with start = page * PAGE_SIZE and
\* end = min(start + PAGE_SIZE, len); empty when start >= len.
PageOf(ordered, page) ==
    LET start == page * PAGE_SIZE IN
    IF ordered = << >> \/ start >= Len(ordered) THEN << >>
    ELSE SubSeq(ordered, start + 1, Min(start + PAGE_SIZE, Len(ordered)))

\* peek_indices
peek_indices(entries, pk, mode, page) ==
    PageOf(ordered_unpeeked_indices(entries, pk, mode), page)

\* peek_indices_all
peek_indices_all(entries, mode, page) == PageOf(ordered_indices(entries, mode), page)

\* peek_indices_for_session
peek_indices_for_session(s, pk, mode, page) ==
    IF s.kind = "Search" THEN peek_indices_all(s.entries, mode, page)
    ELSE peek_indices(s.entries, pk, mode, page)

\* ListView::Peek, ListView::Selected with its return_to (SelectedFromMenu
\* is a variant that forgets where the user came from), and
\* ListView::FinishConfirm.
Peek(mode, page) == [ kind |-> "Peek", mode |-> mode, page |-> page ]
SelectedFromMenu(return_to, index) ==
    [ kind |-> "Selected", return_to |-> Menu, index |-> index ]
SelectedFrom(return_to, index) ==
    [ kind |-> "Selected", return_to |-> return_to, index |-> index ]
FinishConfirm(selected, index) ==
    [ kind |-> "FinishConfirm", selected |-> selected, index |-> index ]

\* ListSession { kind, entries, view, seen_random }, in the sessions map.
ListSession(kind, entries, view, seen_random) ==
    [ open |-> TRUE, kind |-> kind, entries |-> entries, view |-> view,
      seen_random |-> seen_random ]

\* normalize_peek_view going back to the first page from an empty one.
normalize_to_first_page(s, pk) ==
    IF s.view.kind = "Peek"
       /\ peek_indices_for_session(s, pk, s.view.mode, s.view.page) = << >>
       /\ s.view.page > 0
    THEN [ s EXCEPT !.view = Peek(s.view.mode, 0) ]
    ELSE s

\* normalize_peek_view
normalize_peek_view(s, pk) ==
    IF s.view.kind = "Peek"
       /\ peek_indices_for_session(s, pk, s.view.mode, s.view.page) = << >>
       /\ s.view.page > 0
    THEN [ s EXCEPT !.view = Peek(s.view.mode, SatPred(s.view.page)) ]
    ELSE s

\* A faulty variant of random_remaining: every index can be drawn again.
random_remaining_all(s, pk) == 1..Len(s.entries)

\* The indices "random" draws from: those not in seen_random whose block
\* string is not in peeked_snapshot.
random_remaining(s, pk) ==
    { i \in 1..Len(s.entries) :
        /\ i \notin s.seen_random
        /\ block_string(s.entries[i]) \notin pk }

\* What an arm of handle_list_callback that submits no operation makes of
\* the session s and of the peeked set, every way it can end: the session to
\* re-insert, the block strings it adds to AppState.peeked, and the notice
\* it sends.  pk is peeked_snapshot, arg what follows the action in the
\* callback data (the page of "top" / "bottom", the position of "pick").
After(s, add, reply) == [ session |-> s, add |-> add, reply |-> reply ]

\* back_view always going to the menu from a selected entry.
back_view_menu(view) ==
    IF view.kind \in { "Selected", "Peek" } THEN Menu ELSE view

\* The arm "back": the view it leaves.
back_view(view) ==
    IF view.kind = "Selected" THEN view.return_to
    ELSE IF view.kind = "Peek" THEN Menu
    ELSE view

list_action(s, action, arg, pk) ==
    CASE action = "menu" ->
            { After(IF s.kind = "List" THEN [ s EXCEPT !.view = Menu ] ELSE s, { }, "") }
      [] action = "top" ->
            { After([ s EXCEPT !.view = Peek("Top", arg) ], { }, "") }
      [] action = "bottom" ->
            { After([ s EXCEPT !.view = Peek("Bottom", arg) ], { }, "") }
      [] action = "next" ->
            { After(IF s.view.kind = "Peek"
                    THEN [ s EXCEPT !.view = Peek(s.view.mode, s.view.page + 1) ]
                    ELSE s, { }, "") }
      [] action = "prev" ->
            { After(IF s.view.kind = "Peek"
                    THEN [ s EXCEPT !.view = Peek(s.view.mode, SatPred(s.view.page)) ]
                    ELSE s, { }, "") }
      [] action = "back" ->
            { After([ s EXCEPT !.view = back_view(s.view) ], { }, "") }
      [] action = "random" ->
            IF s.kind # "List" \/ s.entries = << >> THEN { After(s, { }, "") }
            ELSE LET remaining == random_remaining(s, pk) IN
                 IF remaining = { }
                 THEN { After([ s EXCEPT !.view = Menu ], { },
                              "Everything's been peeked already.") }
                 ELSE { After([ s EXCEPT !.seen_random = @ \cup { index },
                                         !.view = SelectedFrom(s.view, index) ],
                              { block_string(s.entries[index]) }, "") :
                          index \in remaining }
      [] action = "pick" ->
            IF s.view.kind # "Peek" THEN { After(s, { }, "") }
            ELSE LET indices ==
                       peek_indices_for_session(s, pk, s.view.mode, s.view.page)
                     at == SatPred(arg) + 1 IN
                 IF at > Len(indices) THEN { After(s, { }, "") }
                 ELSE { After([ s EXCEPT !.view = SelectedFrom(s.view, indices[at]) ],
                              IF s.kind = "List"
                              THEN { block_string(s.entries[indices[at]]) } ELSE { },
                              "") }
      [] action = "finish" ->
            { After(IF s.view.kind = "Selected"
                    THEN [ s EXCEPT !.view = FinishConfirm(s.view, s.view.index) ]
                    ELSE s, { }, "") }
      [] action = "finish_cancel" ->
            { After(IF s.view.kind = "FinishConfirm"
                    THEN [ s EXCEPT !.view = s.view.selected ]
                    ELSE s, { }, "") }
      [] OTHER -> { After(s, { }, "") }

\* finish_now_session removing the first entry of the snapshot whatever the
\* confirmed index is.
finish_now_session_first(s, out, pk) ==
    LET selected == s.view.selected IN
    IF out = "Applied"
    THEN normalize_peek_view(
            [ s EXCEPT !.entries = RemoveAt(s.entries, 1),
                       !.view = IF selected.kind = "Selected"
                                THEN selected.return_to ELSE Menu ], pk)
    ELSE [ s EXCEPT !.view = selected ]

\* The session "finish_now" leaves when apply_user_op answered `out` for the
\* move of the entry at the confirmed index.
finish_now_session(s, out, pk) ==
    LET selected == s.view.selected
        index == s.view.index IN
    IF out = "Applied"
    THEN normalize_peek_view(
            [ s EXCEPT !.entries = RemoveAt(s.entries, index),
                       !.view = IF selected.kind = "Selected"
                                THEN selected.return_to ELSE Menu ], pk)
    ELSE [ s EXCEPT !.view = selected ]

\* What "finish_now" answers.
finish_now_reply(out) ==
    CASE out = "Applied" -> "Moved."
      [] out = "NotFound" -> "Item not found."
      [] out = "Queued" -> "Write failed; queued for retry."
      [] OTHER -> ""

----------------------------------------------------------------------------
(* SpecHold: two list callbacks for the same session id in flight.  A      *)
(* callback takes the session out of the sessions map, runs its action on  *)
(* the session it holds (awaiting the bot and apply_user_op on the way),   *)
(* and re-inserts it.                                                      *)

\* A faulty variant of sessions_remove: the session stays in the map.
sessions_keep(s) == s

\* sessions.remove(&session_id): what the map holds for the id afterwards.
sessions_remove(s) == NoSession

HoldHandlers == { "cb1", "cb2" }

\* The pages the model lets a session go to.
MaxPage == 1

Callback(action, arg) == [ action |-> action, arg |-> arg ]

\* The callback data of the buttons: the action and what follows it.
ListCallbacks ==
    { Callback(a, 0) : a \in { "menu", "next", "prev", "back", "random", "finish",
                               "finish_cancel", "finish_now", "delete", "del1",
                               "del2", "cancel_del" } }
    \cup { Callback(a, 0) : a \in { "top", "bottom" } }
    \cup { Callback("pick", at) : at \in 1..2 }

\* The buttons pressed while another callback is in flight.
HoldCallbacks ==
    { Callback(a, 0) : a \in { "menu", "top", "back", "random", "finish",
                               "finish_now", "delete", "del2" } }
    \cup { Callback("pick", 1) }

HoldInit ==
    /\ rlFile = write_entries(<< >>, << <<EA>>, <<EB>> >>)
    /\ finFile = << >>
    /\ queue = << >>
    /\ queueFile = << >>
    /\ sweep = Idle
    /\ undo = << >>
    /\ undoFile = << >>
    /\ undoSessions = { }
    /\ session = ListSession("List", read_entries(rlFile).entries, Menu, { })
    /\ now = 0
    /\ nextId = 1
    /\ faults = 0
    /\ hist = << >>
    /\ swept = << >>
    /\ owed = << >>
    /\ log = << >>
    /\ lock = "free"
    /\ prompts = << >>
    /\ active = 0
    /\ resFile = << >>
    /\ tasks = [ h \in HoldHandlers |-> NoTask ]
    /\ peeked = { }

\* hist in SpecHold: the callback that ran last and how it ended.
Ended(h, cb, out) == << [ handler |-> h, action |-> cb.action, out |-> out ] >>

\* handle_list_callback up to peeked_snapshot: the session is taken out of
\* the map; a callback that finds no session answers the query and returns.
CbTake(h, cb) ==
    /\ tasks[h] = NoTask
    /\ ~ ( cb.action = "next" /\ session.open /\ session.view.kind = "Peek"
           /\ session.view.page >= MaxPage )
    /\ IF session.open
       THEN /\ tasks' = [ tasks EXCEPT ![h] =
                            [ pc |-> "holding", cb |-> cb, session |-> session,
                              peeked_snapshot |-> peeked ] ]
            /\ session' = sessions_remove(session)
            /\ hist' = Ended(h, cb, "holding")
       ELSE /\ hist' = Ended(h, cb, "no session")
            /\ UNCHANGED << tasks, session >>
    /\ UNCHANGED << rlFile, finFile, queue, queueFile, sweep, undo, undoFile,
                    undoSessions, now, nextId, faults, swept, owed, log, lock, peeked,
                    prompts, active, resFile >>

\* ListView::DeleteConfirm with the view it came from.
DeleteConfirmFrom(selected, index, step, expires_at) ==
    [ kind |-> "DeleteConfirm", selected |-> selected, index |-> index,
      step |-> step, expires_at |-> expires_at ]

\* The arms "delete", "del1" and "cancel_del" at the time t: the view they
\* leave and the notice they send.
delete_view(view, action, t) ==
    CASE action = "delete" /\ view.kind = "Selected" ->
            [ view |-> DeleteConfirmFrom(view, view.index, 1, t + DELETE_CONFIRM_TTL_SECS),
              reply |-> "" ]
      [] action = "del1" /\ view.kind = "DeleteConfirm" ->
            IF t > view.expires_at
            THEN [ view |-> view.selected, reply |-> "Delete confirmation expired." ]
            ELSE [ view |-> [ view EXCEPT !.step = 2 ], reply |-> "" ]
      [] action = "cancel_del" /\ view.kind = "DeleteConfirm" ->
            [ view |-> view.selected, reply |-> "" ]
      [] OTHER -> [ view |-> view, reply |-> "" ]

\* del2_session dropping the entry from the snapshot on every outcome but
\* Duplicate.
del2_session_drop(s, out, pk) ==
    LET selected == s.view.selected
        index == s.view.index IN
    IF out = "Duplicate" THEN s
    ELSE normalize_peek_view(
            [ s EXCEPT !.entries = RemoveAt(s.entries, index),
                       !.view = IF out = "Applied" /\ selected.kind = "Selected"
                                THEN selected.return_to ELSE selected ], pk)

\* The session "del2" leaves when apply_user_op answered `out` for the
\* deletion of the entry at the confirmed index.
del2_session(s, out, pk) ==
    LET selected == s.view.selected
        index == s.view.index IN
    IF out = "Applied"
    THEN normalize_peek_view(
            [ s EXCEPT !.entries = RemoveAt(s.entries, index),
                       !.view = IF selected.kind = "Selected"
                                THEN selected.return_to ELSE Menu ], pk)
    ELSE IF out = "Duplicate" THEN s
    ELSE [ s EXCEPT !.view = selected ]

\* list_op without the test of the confirmation's deadline in "del2".
list_op_any_time(s, action, t) ==
    IF action = "finish_now" /\ s.view.kind = "FinishConfirm"
       /\ s.view.index <= Len(s.entries)
    THEN Op("MoveToFinished", block_string(s.entries[s.view.index]), NoText)
    ELSE IF action = "del2" /\ s.view.kind = "DeleteConfirm"
            /\ s.view.index <= Len(s.entries)
    THEN Op("Delete", block_string(s.entries[s.view.index]), NoText)
    ELSE Op("", << >>, NoText)

\* The operation an arm of handle_list_callback submits for the session s:
\* "finish_now" moves the confirmed entry to finished, "del2" deletes it
\* when the confirmation has not expired.  kind "" when it submits none.
list_op(s, action, t) ==
    IF action = "finish_now" /\ s.view.kind = "FinishConfirm"
       /\ s.view.index <= Len(s.entries)
    THEN Op("MoveToFinished", block_string(s.entries[s.view.index]), NoText)
    ELSE IF action = "del2" /\ s.view.kind = "DeleteConfirm"
            /\ ~ (t > s.view.expires_at) /\ s.view.index <= Len(s.entries)
    THEN Op("Delete", block_string(s.entries[s.view.index]), NoText)
    ELSE Op("", << >>, NoText)

\* handle_list_callback from `match action` on, for the callback cb of the
\* handler h on the session s it holds, with pk its peeked_snapshot: the
\* action runs and the session is re-inserted.
ListRun(s, cb, pk, h) ==
    LET op == list_op(s, cb.action, now) IN
    IF op.kind # ""
    THEN \E r \in apply_user_op(op, Stores, queue, faults) :
            /\ Applies(r)
            /\ session' = IF op.kind = "Delete" THEN del2_session(s, r.out, pk)
                          ELSE finish_now_session(s, r.out, pk)
            /\ IF r.out = "Applied"
               THEN /\ undo' = add_undo(undo, nextId, op.kind, op.entry, now)
                    /\ undoFile' = undo'
                    /\ nextId' = nextId + 1
               ELSE UNCHANGED << undo, undoFile, nextId >>
            /\ hist' = Ended(h, cb, r.out)
            /\ owed' = IF r.out = "Queued" THEN Append(owed, op) ELSE owed
            /\ UNCHANGED peeked
    ELSE IF cb.action = "del2" /\ s.view.kind = "DeleteConfirm"
    THEN /\ session' = [ s EXCEPT !.view =
                           IF now > s.view.expires_at THEN s.view.selected ELSE s.view ]
         /\ hist' = Ended(h, cb, IF now > s.view.expires_at
                                 THEN "Delete confirmation expired." ELSE "")
         /\ UNCHANGED << rlFile, finFile, queue, queueFile, faults, undo, undoFile,
                         nextId, owed, peeked >>
    ELSE IF cb.action \in { "delete", "del1", "cancel_del" }
    THEN /\ session' = [ s EXCEPT !.view = delete_view(s.view, cb.action, now).view ]
         /\ hist' = Ended(h, cb, delete_view(s.view, cb.action, now).reply)
         /\ UNCHANGED << rlFile, finFile, queue, queueFile, faults, undo, undoFile,
                         nextId, owed, peeked >>
    ELSE \E a \in list_action(s, cb.action, cb.arg, pk) :
            /\ session' = a.session
            /\ peeked' = peeked \cup a.add
            /\ hist' = Ended(h, cb, a.reply)
            /\ UNCHANGED << rlFile, finFile, queue, queueFile, faults, undo,
                            undoFile, nextId, owed >>

\* A callback that holds the session runs its action and re-inserts it.
CbRun(h) ==
    /\ tasks[h].pc = "holding"
    /\ ListRun(tasks[h].session, tasks[h].cb, tasks[h].peeked_snapshot, h)
    /\ tasks' = [ tasks EXCEPT ![h] = NoTask ]
    /\ UNCHANGED << sweep, undoSessions, now, swept, log, lock, prompts, active, resFile >>

HoldNext ==
    \/ \E h \in HoldHandlers, cb \in HoldCallbacks : CbTake(h, cb)
    \/ \E h \in HoldHandlers : CbRun(h)

SpecHold == HoldInit /\ [][HoldNext]_vars

\* The callbacks that hold the session.
Holders == { h \in DOMAIN tasks : tasks[h].pc = "holding" }

\* C12: while a list callback holds the session, no second callback for the
\* same id comes to hold it, and a callback that arrives meanwhile (a step
\* that leaves the holder where it is) changes neither a session, nor the
\* peeked set, nor the stores, nor the queue, nor the undo ledger.
C12_HeldSessionSerial ==
    [][ Holders # { } =>
          /\ Cardinality(Holders') <= 1
          /\ ( tasks' = tasks =>
                 UNCHANGED << session, peeked, rlFile, finFile, queue, queueFile,
                              undo, undoFile >> ) ]_vars

\* A callback arrived while another one held the session, and returned.
C12_Witness ==
    /\ Holders # { }
    /\ hist # << >>
    /\ hist[1].out = "no session"
    /\ hist[1].handler \notin Holders

----------------------------------------------------------------------------
(* Expired undo records, checked under SpecUndo *)

\* The undo records of the ledger and of the open undos lists.
KnownRecords ==
    Range(undo) \cup UNION { Range(u.records) : u \in undoSessions }

\* C13: no undo action submits the reversal of a record whose expires_at has
\* passed, be it the undo button of the record or the button of an undos
\* list that captured the record before it expired.
C13_NoReversalAfterExpiry ==
    [][ log' # log =>
          \A record \in KnownRecords :
              record.id = Last(log').id => record.expires_at >= now' ]_vars

----------------------------------------------------------------------------
(* SpecSnap: one List session is the only source of mutations; its         *)
(* callbacks run one at a time, the retry sweep runs beside them, and the  *)
(* file system answers some reads and writes with an error.                *)

\* The I/O errors injected in a behaviour of SpecSnap.
SnapFaults == 3

SnapInit ==
    /\ rlFile = write_entries(<< >>, << <<EA>>, <<EB>> >>)
    /\ finFile = << >>
    /\ queue = << >>
    /\ queueFile = << >>
    /\ sweep = Idle
    /\ undo = << >>
    /\ undoFile = << >>
    /\ undoSessions = { }
    /\ session = ListSession("List", read_entries(rlFile).entries, Menu, { })
    /\ now = 0
    /\ nextId = 1
    /\ faults = SnapFaults
    /\ hist = << >>
    /\ swept = << >>
    /\ owed = << >>
    /\ log = << >>
    /\ lock = "free"
    /\ prompts = << >>
    /\ active = 0
    /\ resFile = << >>
    /\ tasks = << >>
    /\ peeked = { }

\* handle_list_callback for the callback cb, from the removal of the session
\* to its re-insertion.
ListCallback(cb) ==
    /\ session.open
    /\ ~ ( cb.action = "next" /\ session.view.kind = "Peek"
           /\ session.view.page >= MaxPage )
    /\ ListRun(session, cb, peeked, "cb")
    /\ UNCHANGED << sweep, undoSessions, now, swept, log, lock, tasks, prompts, active, resFile >>

SnapNext ==
    \/ \E cb \in ListCallbacks : ListCallback(cb)
    \/ SweepTake
    \/ SweepApply
    \/ SweepFinish

SpecSnap == SnapInit /\ [][SnapNext]_vars

\* The block strings of the session's snapshot, in order.
SnapshotBlocks == [ i \in 1..Len(session.entries) |-> block_string(session.entries[i]) ]

\* C14: for a List session that is the only source of mutations, the block
\* strings of its snapshot are the entries of the read-later store after
\* every action of the session and after every step of the sweep that
\* applies an operation the session had queued.
C14_SnapshotIsStore ==
    (session.open /\ session.kind = "List") => SnapshotBlocks = Blocks(rlFile)

----------------------------------------------------------------------------
(* SpecRound: a preamble and a list of entries are written with            *)
(* write_entries and read back with read_entries.                          *)

\* Preambles: none, one blank line, two blank lines, a heading, a heading
\* and a blank line.
RoundPreambles ==
    { << >>, << << >> >>, << << >>, << >> >>, << << "#" >> >>, << << "#" >>, << >> >> }

\* Entries whose first line starts with "- ": of one line, and with a second
\* line that is text, blank, or starts with "-".
RoundEntries ==
    { << EA >>, << EB >>, << EA, << "x" >> >>, << EA, << >> >>, << EA, << DASH >> >> }

\* The lists written have at most this many entries.
MaxRound == 2

RoundLists ==
    UNION { [ 1..n -> RoundEntries ] : n \in 0..MaxRound }

RoundInit ==
    /\ rlFile = << >>
    /\ finFile = << >>
    /\ queue = << >>
    /\ queueFile = << >>
    /\ sweep = Idle
    /\ undo = << >>
    /\ undoFile = << >>
    /\ undoSessions = { }
    /\ session = NoSession
    /\ now = 0
    /\ nextId = 1
    /\ faults = 0
    /\ hist = << >>
    /\ swept = << >>
    /\ owed = << >>
    /\ log = << >>
    /\ lock = "free"
    /\ prompts = << >>
    /\ active = 0
    /\ resFile = << >>
    /\ tasks = << >>
    /\ peeked = { }

\* write_entries(path, preamble, entries), then read_entries(path); hist
\* keeps what was written and what was read.
WriteRead(preamble, entries) ==
    /\ rlFile' = write_entries(preamble, entries)
    /\ hist' = << [ preamble |-> preamble, entries |-> entries,
                    back |-> read_entries(rlFile') ] >>
    /\ UNCHANGED << finFile, queue, queueFile, sweep, undo, undoFile, undoSessions,
                    session, now, nextId, faults, swept, owed, log, lock, tasks,
                    peeked, prompts, active, resFile >>

RoundNext == \E preamble \in RoundPreambles, entries \in RoundLists :
                WriteRead(preamble, entries)

SpecRound == RoundInit /\ [][RoundNext]_vars

\* C15: what read_entries gives back after write_entries is the preamble
\* and the entries that were written, for every preamble (blank lines
\* included) and all entries that start with "- " and go on with any text.
C15_WriteReadRoundTrip ==
    hist # << >> =>
        /\ hist[1].back.preamble = hist[1].preamble
        /\ hist[1].back.entries = hist[1].entries

----------------------------------------------------------------------------
(* SpecText: entries made by from_text from message texts of several lines *)
(* are added, and then looked for by their block strings.                  *)

\* The message texts "a\nb", "a\n", "a\n- b" and "a\n-".
Texts ==
    { << "a", NL, "b" >>, << "a", NL >>, << "a", NL, DASH, SPACE, "b" >>,
      << "a", NL, DASH >> }

\* QueuedOp.entry of the Add a handler submits for the text t.
TextBlock(t) == block_string(from_text(t))

TextOps ==
    { Op("Add", TextBlock(t), NoText) : t \in Texts }
    \cup { Op(k, TextBlock(t), NoText) : k \in { "Delete", "MoveToFinished" }, t \in Texts }
    \cup { Op("UpdateEntry", TextBlock(t), SomeText(EB)) : t \in Texts }

TextInit ==
    /\ rlFile \in { write_entries(p, << >>) : p \in InitPreambles }
    /\ finFile = << >>
    /\ queue = << >>
    /\ queueFile = << >>
    /\ sweep = Idle
    /\ undo = << >>
    /\ undoFile = << >>
    /\ undoSessions = { }
    /\ session = NoSession
    /\ now = 0
    /\ nextId = 1
    /\ faults = 0
    /\ hist = << >>
    /\ swept = << >>
    /\ owed = << >>
    /\ log = << >>
    /\ lock = "free"
    /\ prompts = << >>
    /\ active = 0
    /\ resFile = << >>
    /\ tasks = << >>
    /\ peeked = { }

TextNext == \E op \in TextOps : ApplyOp(op)

SpecText == TextInit /\ [][TextNext]_vars

\* The step applies an operation of kind Delete, MoveToFinished or
\* UpdateEntry to the block string that the step before added.
TargetsAdded ==
    /\ Len(hist) = 1
    /\ hist[1].op.kind = "Add"
    /\ hist[1].out = "Applied"
    /\ Len(hist') = 1
    /\ hist'[1].op.kind \in { "Delete", "MoveToFinished", "UpdateEntry" }
    /\ hist'[1].op.entry = hist[1].op.entry

\* C16: for every text t of several lines, once Add(from_text(t)) returned
\* Applied, a Delete, MoveToFinished or UpdateEntry of the same block string
\* finds the entry: it returns Applied.
C16_AddedBlockIsFound ==
    [][ TargetsAdded => hist'[1].out = "Applied" ]_vars

----------------------------------------------------------------------------
(* SpecPeek: the page of a peek view, asked for a session and a peeked set *)

\* The snapshots are the first n of the one-line entries "- 1", "- 2", ...
MaxPeekEntries == 5
PeekEntries == [ i \in 1..MaxPeekEntries |-> << << DASH, SPACE, ToString(i) >> >> ]

\* The pages asked for.
MaxPeekPage == 2

PeekInit ==
    /\ rlFile = << >>
    /\ finFile = << >>
    /\ queue = << >>
    /\ queueFile = << >>
    /\ sweep = Idle
    /\ undo = << >>
    /\ undoFile = << >>
    /\ undoSessions = { }
    /\ \E n \in 0..MaxPeekEntries, kind \in { "List", "Search" } :
          session = ListSession(kind, SubSeq(PeekEntries, 1, n), Menu, { })
    /\ now = 0
    /\ nextId = 1
    /\ faults = 0
    /\ hist = << >>
    /\ swept = << >>
    /\ owed = << >>
    /\ log = << >>
    /\ lock = "free"
    /\ prompts = << >>
    /\ active = 0
    /\ resFile = << >>
    /\ tasks = << >>
    /\ peeked \in SUBSET { block_string(PeekEntries[i]) : i \in 1..MaxPeekEntries }

\* peek_indices_for_session(session, peeked, mode, page), as render_list_view
\* and the "pick" arm call it; hist keeps the arguments and the result.
PeekAsk(mode, page) ==
    /\ hist' = << [ mode |-> mode, page |-> page,
                    indices |-> peek_indices_for_session(session, peeked, mode, page) ] >>
    /\ UNCHANGED << rlFile, finFile, queue, queueFile, sweep, undo, undoFile,
                    undoSessions, session, now, nextId, faults, swept, owed, log,
                    lock, tasks, peeked, prompts, active, resFile >>

PeekNext == \E mode \in { "Top", "Bottom" }, page \in 0..MaxPeekPage : PeekAsk(mode, page)

SpecPeek == PeekInit /\ [][PeekNext]_vars

\* The candidates of the session: every snapshot index of a Search session,
\* those whose block string is not in the peeked set of a List session.
Candidates ==
    { i \in 1..Len(session.entries) :
        session.kind = "Search" \/ block_string(session.entries[i]) \notin peeked }

\* The candidates that come before the candidate c in the order of the mode.
Before(c, mode) ==
    { d \in Candidates : IF mode = "Bottom" THEN d > c ELSE d < c }

\* C17: the page is the slice [page*3, page*3+3) of the candidates, taken in
\* ascending order for Top and in descending order for Bottom; it is empty
\* when the page is past the end.
C17_PageIsSliceOfCandidates ==
    hist # << >> =>
        LET r == hist[1].indices
            start == hist[1].page * 3
            left == Cardinality(Candidates) - start IN
        /\ Len(r) = ( IF left <= 0 THEN 0 ELSE IF left >= 3 THEN 3 ELSE left )
        /\ \A k \in 1..Len(r) :
              /\ r[k] \in Candidates
              /\ Cardinality(Before(r[k], hist[1].mode)) = start + k - 1

\* A second page of a List session some of whose entries are peeked.
C17_Witness ==
    /\ hist # << >>
    /\ hist[1].page = 1
    /\ hist[1].indices # << >>
    /\ session.kind = "List"
    /\ Cardinality(Candidates) < Len(session.entries)

----------------------------------------------------------------------------
(* SpecRandom: a List session in which "random" is pressed again and       *)
(* again, with "back" and "menu" between the draws.                        *)

\* The snapshot has at most this many entries.
MaxRandomEntries == 3

RandomCallbacks == { Callback(a, 0) : a \in { "random", "back", "menu" } }

RandomInit ==
    /\ rlFile = << >>
    /\ finFile = << >>
    /\ queue = << >>
    /\ queueFile = << >>
    /\ sweep = Idle
    /\ undo = << >>
    /\ undoFile = << >>
    /\ undoSessions = { }
    /\ \E n \in 0..MaxRandomEntries :
          session = ListSession("List", SubSeq(PeekEntries, 1, n), Menu, { })
    /\ now = 0
    /\ nextId = 1
    /\ faults = 0
    /\ hist = << >>
    /\ swept = << >>
    /\ owed = << >>
    /\ log = << >>
    /\ lock = "free"
    /\ prompts = << >>
    /\ active = 0
    /\ resFile = << >>
    /\ tasks = << >>
    /\ peeked \in SUBSET { block_string(PeekEntries[i]) : i \in 1..MaxRandomEntries }

RandomNext == \E cb \in RandomCallbacks : ListCallback(cb)

SpecRandom == RandomInit /\ [][RandomNext]_vars

\* Everything is peeked: every snapshot index was drawn by the session or
\* has its block string in the peeked set.
Exhausted ==
    \A i \in 1..Len(session.entries) :
        i \in session.seen_random \/ block_string(session.entries[i]) \in peeked

\* The step is a "random" pressed in the Menu view.
RandomFromMenu ==
    /\ session.view.kind = "Menu"
    /\ Len(hist') = 1
    /\ hist'[1].action = "random"

\* C18: in a List session with n entries every successful draw adds one new
\* index to seen_random, which never holds more than n indices, so after at
\* most n successful draws everything is peeked; from then on it stays so,
\* and a further "random" leaves the snapshot, seen_random and the peeked
\* set as they are and the view at Menu.
C18_RandomExhausts ==
    [][ /\ Cardinality(session'.seen_random) <= Len(session'.entries)
        /\ Exhausted => Exhausted'
        /\ RandomFromMenu =>
             IF Exhausted
             THEN /\ session'.entries = session.entries
                  /\ session'.seen_random = session.seen_random
                  /\ peeked' = peeked
                  /\ session'.view = Menu
             ELSE /\ session'.entries = session.entries
                  /\ session.seen_random \subseteq session'.seen_random
                  /\ Cardinality(session'.seen_random) =
                       Cardinality(session.seen_random) + 1 ]_vars

\* After two draws the session answers that everything is peeked.
C18_Witness ==
    /\ Cardinality(session.seen_random) >= 2
    /\ hist # << >>
    /\ hist[1].action = "random"
    /\ hist[1].out = "Everything's been peeked already."
    /\ session.view = Menu

----------------------------------------------------------------------------
(* Duplicate and NotFound, checked under SpecStore *)

\* The outcome the operation op has to return before any write, on the
\* stores rl and fin: Duplicate for an Add of a block that is there, NotFound
\* for the other kinds when the block they look for is not; "" otherwise.
EarlyOutcome(op, rl, fin) ==
    IF op.kind = "Add"
    THEN ( IF block_string(from_block(op.entry)) \in BlockSet(rl) THEN "Duplicate" ELSE "" )
    ELSE IF op.kind = "MoveToReadLater"
    THEN ( IF op.entry \notin BlockSet(fin) THEN "NotFound" ELSE "" )
    ELSE ( IF op.entry \notin BlockSet(rl) THEN "NotFound" ELSE "" )

\* C19: an operation that returns Duplicate or NotFound has written no
\* file: both stores have the bytes they had before, preambles included;
\* and when no I/O error occurs, an Add of a block that is there returns
\* Duplicate and an operation on a block that is not there returns NotFound,
\* as values.
C19_EarlyOutcomesWriteNothing ==
    hist # << >> =>
        LET h == hist[1] IN
        /\ h.out \in { "Duplicate", "NotFound" } =>
              /\ rlFile = h.rl
              /\ finFile = h.fin
              /\ h.out = EarlyOutcome(h.op, h.rl, h.fin)
        /\ ( faults = StoreFaults /\ EarlyOutcome(h.op, h.rl, h.fin) # "" ) =>
              h.out = EarlyOutcome(h.op, h.rl, h.fin)

\* A move of a block that is not in its source store returned NotFound, on
\* stores that have a preamble and entries.
C19_Witness ==
    /\ hist # << >>
    /\ hist[1].out = "NotFound"
    /\ hist[1].op.kind \in { "MoveToFinished", "MoveToReadLater" }
    /\ read_entries(rlFile).preamble # << >>
    /\ read_entries(rlFile).entries # << >>

----------------------------------------------------------------------------
(* SpecImport: URLs imported into the read-later store, one list after the *)
(* other.                                                                  *)

\* The lists of URLs have at most this many elements.
MaxUrls == 3

UrlLists == UNION { [ 1..n -> { UA, UB, UC } ] : n \in 0..MaxUrls }

\* The read-later files at the start: the files write_entries leaves, a file
\* that is one blank line, and a file with CR LF line endings.
ImportFiles ==
    InitFiles \cup { << NL >>, EA \o << "\r", NL >> \o << "x", "\r", NL >> }

ImportInit ==
    /\ rlFile \in ImportFiles
    /\ finFile = << >>
    /\ queue = << >>
    /\ queueFile = << >>
    /\ sweep = Idle
    /\ undo = << >>
    /\ undoFile = << >>
    /\ undoSessions = { }
    /\ session = NoSession
    /\ now = 0
    /\ nextId = 1
    /\ faults = 0
    /\ hist = << >>
    /\ swept = << >>
    /\ owed = << >>
    /\ log = << >>
    /\ lock = "free"
    /\ prompts = << >>
    /\ active = 0
    /\ resFile = << >>
    /\ tasks = << >>
    /\ peeked = { }

\* prepend_urls_to_read_later_sync(read_later_path, urls); hist keeps the
\* arguments, the file before the call and the counts returned.
Import(urls) ==
    LET r == prepend_urls_to_read_later_sync(rlFile, urls) IN
    /\ rlFile' = r.file
    /\ hist' = << [ urls |-> urls, rl |-> rlFile, added |-> r.added,
                    duplicate |-> r.duplicate ] >>
    /\ UNCHANGED << finFile, queue, queueFile, sweep, undo, undoFile, undoSessions,
                    session, now, nextId, faults, swept, owed, log, lock, tasks,
                    peeked, prompts, active, resFile >>

ImportNext == \E urls \in UrlLists : Import(urls)

SpecImport == ImportInit /\ [][ImportNext]_vars

\* The block of the entry made for the URL u.
UrlBlock(u) == << DASH, SPACE >> \o u

\* The positions in urls of the URLs to insert: the block is not in the
\* store `file` and the URL does not occur earlier in the list.
FreshAt(urls, file) ==
    { i \in 1..Len(urls) :
        /\ UrlBlock(urls[i]) \notin BlockSet(file)
        /\ \A j \in 1..(i - 1) : urls[j] # urls[i] }

\* The blocks to insert, in the order of the list.
FreshBlocks(urls, file) ==
    LET at == FreshAt(urls, file) IN
    [ k \in 1..Cardinality(at) |->
        UrlBlock(urls[CHOOSE i \in at : Cardinality({ j \in at : j < i }) = k - 1]) ]

\* C20: the import puts one entry for each URL whose block is neither in the
\* store nor earlier in the list at the head of the store, in the order of
\* the list; the entries that were there follow unchanged and in order, the
\* preamble is the same, and the counts returned are the number inserted and
\* the number skipped.
C20_ImportPrepends ==
    hist # << >> =>
        LET h == hist[1]
            fresh == FreshBlocks(h.urls, h.rl) IN
        /\ Blocks(rlFile) = fresh \o Blocks(h.rl)
        /\ read_entries(rlFile).preamble = read_entries(h.rl).preamble
        /\ h.added = Len(fresh)
        /\ h.duplicate = Len(h.urls) - Len(fresh)

\* Two URLs were inserted before the entries of the store and one was
\* skipped.
C20_Witness ==
    /\ hist # << >>
    /\ hist[1].added = 2
    /\ hist[1].duplicate >= 1
    /\ Blocks(hist[1].rl) # << >>
    /\ Len(Blocks(rlFile)) = Len(Blocks(hist[1].rl)) + 2

----------------------------------------------------------------------------
(* SpecList: one session of a chat, its callbacks running one at a time,   *)
(* while the clock advances, another handler deletes entries from the      *)
(* store and another session marks entries as peeked.                      *)

\* The clock of SpecList does not pass this time.
MaxListNow == 301

ListInit ==
    /\ rlFile = write_entries(<< >>, << <<EA>>, <<EB>> >>)
    /\ finFile = << >>
    /\ queue = << >>
    /\ queueFile = << >>
    /\ sweep = Idle
    /\ undo = << >>
    /\ undoFile = << >>
    /\ undoSessions = { }
    /\ \E kind \in { "List", "Search" } :
          session = ListSession(kind, read_entries(rlFile).entries, Menu, { })
    /\ now = 0
    /\ nextId = 1
    /\ faults = 0
    /\ hist = << >>
    /\ swept = << >>
    /\ owed = << >>
    /\ log = << >>
    /\ lock = "free"
    /\ prompts = << >>
    /\ active = 0
    /\ resFile = << >>
    /\ tasks = << >>
    /\ peeked = { }

\* handle_list_callback for the callback cb; a confirmation is asked for up
\* to the time MaxAskAt only.
ListStep(cb) ==
    /\ cb.action = "delete" => now <= MaxAskAt
    /\ ListCallback(cb)

\* Another handler of the process deletes the entry e from the store.
OutsideDelete(e) ==
    /\ \E r \in apply_user_op(Op("Delete", e, NoText), Stores, queue, faults) :
          /\ Applies(r)
          /\ r.out = "Applied"
    /\ hist' = Ended("other", Callback("del2", 0), "Applied")
    /\ UNCHANGED << sweep, undo, undoFile, undoSessions, session, now, nextId,
                    swept, owed, log, lock, tasks, peeked, prompts, active, resFile >>

\* Another session of the process shows the entry with the block string b:
\* peeked.insert(b).
OutsidePeek(b) ==
    /\ b \notin peeked
    /\ peeked' = peeked \cup { b }
    /\ hist' = Ended("other", Callback("pick", 0), "")
    /\ UNCHANGED << rlFile, finFile, queue, queueFile, sweep, undo, undoFile,
                    undoSessions, session, now, nextId, faults, swept, owed, log,
                    lock, tasks, prompts, active, resFile >>

\* Time passes while a confirmation is pending, up to its deadline, the
\* second before it or the second after it.
ListTick ==
    /\ session.view.kind = "DeleteConfirm"
    /\ \E t \in { session.view.expires_at - 1, session.view.expires_at,
                  session.view.expires_at + 1 } :
          /\ t > now
          /\ t <= MaxListNow
          /\ now' = t
    /\ hist' = Ended("clock", Callback("tick", 0), "")
    /\ UNCHANGED << rlFile, finFile, queue, queueFile, sweep, undo, undoFile,
                    undoSessions, session, nextId, faults, swept, owed, log, lock,
                    tasks, peeked, prompts, active, resFile >>

ListNext ==
    \/ \E cb \in ListCallbacks : ListStep(cb)
    \/ \E e \in OpEntries : OutsideDelete(e)
    \/ \E e \in OpEntries : OutsidePeek(e)
    \/ ListTick

SpecList == ListInit /\ [][ListNext]_vars

\* The outcomes of apply_user_op.
OpOutcomes == { "Applied", "NotFound", "Duplicate", "Queued" }

\* The step is the session's callback `action`.
ListStepOf(action) ==
    /\ Len(hist') = 1
    /\ hist'[1].handler = "cb"
    /\ hist'[1].action = action

\* The step is the session's callback `action` and it submitted an
\* operation through apply_user_op.
Submits(action) == ListStepOf(action) /\ hist'[1].out \in OpOutcomes

\* C21: the list handler submits a Delete only from a DeleteConfirm view at
\* step 2, that is after delete, del1 and del2 were received for the entry;
\* a del2 received at step 1 submits nothing.
C21_DeleteOnlyAtStepTwo ==
    [][ Submits("del2") =>
          /\ session.view.kind = "DeleteConfirm"
          /\ session.view.step = 2 ]_vars

\* C22: an accepted del1 (the confirmation has not expired) leaves the view
\* DeleteConfirm at step 2 with a fresh expiry, the time of del1 plus
\* DELETE_CONFIRM_TTL_SECS.
C22_Del1FreshExpiry ==
    [][ ( /\ ListStepOf("del1")
          /\ session.view.kind = "DeleteConfirm"
          /\ now <= session.view.expires_at )
        => /\ session'.view.kind = "DeleteConfirm"
           /\ session'.view.step = 2
           /\ session'.view.expires_at = now + DELETE_CONFIRM_TTL_SECS ]_vars

\* The notice of an expired confirmation.
EXPIRED_NOTICE == "Delete confirmation expired."

\* C23: a del1 or del2 received after the confirmation's expires_at has
\* passed submits no Delete: the view goes back to the captured selected
\* view, the snapshot, the store and the queue are unchanged, and the notice
\* "Delete confirmation expired." is reported.
C23_ExpiredConfirmDeletesNothing ==
    [][ ( /\ ListStepOf("del1") \/ ListStepOf("del2")
          /\ session.view.kind = "DeleteConfirm"
          /\ now > session.view.expires_at )
        => /\ session'.view = session.view.selected
           /\ session'.entries = session.entries
           /\ hist'[1].out = EXPIRED_NOTICE
           /\ UNCHANGED << rlFile, finFile, queue, queueFile, undo >> ]_vars

\* A del2 was answered with the notice and the session is back on the
\* selected entry, which the store still has.
C23_Witness ==
    /\ Len(hist) = 1
    /\ hist[1].handler = "cb"
    /\ hist[1].action = "del2"
    /\ hist[1].out = EXPIRED_NOTICE
    /\ session.view.kind = "Selected"
    /\ now > DELETE_CONFIRM_TTL_SECS
    /\ block_string(session.entries[session.view.index]) \in Range(Blocks(rlFile))

\* The view a removal comes back to from `base`, the snapshot being
\* `entries` after the removal: a Peek page without candidates steps back
\* one page, unless it is page 0.
Renormalized(base, entries) ==
    IF base.kind # "Peek" THEN base
    ELSE IF base.page > 0
            /\ peek_indices_for_session([ session EXCEPT !.entries = entries ],
                                        peeked, base.mode, base.page) = << >>
         THEN Peek(base.mode, base.page - 1)
         ELSE base

\* C24: when finish_now in the view FinishConfirm{selected, index} gets the
\* outcome Applied, exactly the snapshot entry at index is removed, the
\* view becomes the return_to captured in selected with its Peek page
\* re-normalized, and exactly one undo record, of kind MoveToFinished with
\* the moved entry's block string, is appended to the ledger.
C24_FinishNowApplied ==
    [][ ( /\ ListStepOf("finish_now")
          /\ hist'[1].out = "Applied"
          /\ session.view.kind = "FinishConfirm" )
        => LET index == session.view.index
               moved == block_string(session.entries[index]) IN
           /\ session'.entries = RemoveAt(session.entries, index)
           /\ session'.view =
                 Renormalized(session.view.selected.return_to, session'.entries)
           /\ Len(undo') = Len(undo) + 1
           /\ SubSeq(undo', 1, Len(undo)) = undo
           /\ Last(undo').kind = "MoveToFinished"
           /\ Last(undo').entry = moved
           /\ undoFile' = undo' ]_vars

\* finish_now moved the second entry of the snapshot, picked from a Peek
\* page, and the session is back on that page with the first entry.
C24_Witness ==
    /\ Len(hist) = 1
    /\ hist[1].handler = "cb"
    /\ hist[1].action = "finish_now"
    /\ hist[1].out = "Applied"
    /\ session.view.kind = "Peek"
    /\ session.entries = << <<EA>> >>
    /\ Len(undo) >= 1
    /\ Last(undo).kind = "MoveToFinished"
    /\ Last(undo).entry = EB
    /\ EB \in Range(Blocks(finFile))

----------------------------------------------------------------------------
(* SpecListFaulty: SpecList on a disk where up to ListFaults reads or      *)
(* writes of the store fail, so that an operation of the session can end   *)
(* Queued.                                                                 *)

ListFaults == 3

ListFaultyInit ==
    /\ rlFile = write_entries(<< >>, << <<EA>>, <<EB>> >>)
    /\ finFile = << >>
    /\ queue = << >>
    /\ queueFile = << >>
    /\ sweep = Idle
    /\ undo = << >>
    /\ undoFile = << >>
    /\ undoSessions = { }
    /\ session = ListSession("List", read_entries(rlFile).entries, Menu, { })
    /\ now = 0
    /\ nextId = 1
    /\ faults = ListFaults
    /\ hist = << >>
    /\ swept = << >>
    /\ owed = << >>
    /\ log = << >>
    /\ lock = "free"
    /\ prompts = << >>
    /\ active = 0
    /\ resFile = << >>
    /\ tasks = << >>
    /\ peeked = { }

\* The callbacks of the session, and the deletion by another handler.
ListFaultyNext ==
    \/ \E cb \in HoldCallbacks : ListStep(cb)
    \/ \E e \in OpEntries : OutsideDelete(e)

SpecListFaulty == ListFaultyInit /\ [][ListFaultyNext]_vars

\* C25: when finish_now or del2 gets the outcome NotFound or Queued, the
\* snapshot and seen_random are unchanged, no undo record is appended and
\* the view becomes the captured selected view; when del2 gets the outcome
\* Duplicate the view and the snapshot are both unchanged.
C25_FailedRemovalKeepsSnapshot ==
    [][ /\ ( /\ ListStepOf("finish_now") \/ ListStepOf("del2")
             /\ session.view.kind \in { "FinishConfirm", "DeleteConfirm" }
             /\ hist'[1].out \in { "NotFound", "Queued" } )
           => /\ session'.entries = session.entries
              /\ session'.seen_random = session.seen_random
              /\ undo' = undo
              /\ undoFile' = undoFile
              /\ session'.view = session.view.selected
        /\ ( /\ ListStepOf("del2")
             /\ session.view.kind = "DeleteConfirm"
             /\ hist'[1].out = "Duplicate" )
           => /\ session'.view = session.view
              /\ session'.entries = session.entries ]_vars

\* A del2 was answered NotFound after an earlier operation of the session
\* had been queued; the snapshot still has both entries.
C25_Witness ==
    /\ Len(hist) = 1
    /\ hist[1].handler = "cb"
    /\ hist[1].action = "del2"
    /\ hist[1].out = "NotFound"
    /\ owed # << >>
    /\ Len(session.entries) = 2
    /\ session.view.kind = "Selected"

\* The store, the queue and the ledger are as before the step.
NoMutation ==
    UNCHANGED << rlFile, finFile, queue, queueFile, undo, undoFile, owed >>

\* C26: back maps the view Selected{return_to, index} to the captured
\* return_to, maps a Peek view to Menu and leaves the views Menu,
\* FinishConfirm and DeleteConfirm as they are; it changes neither the
\* snapshot nor seen_random nor the peeked set and submits no store
\* mutation.
C26_BackRestoresView ==
    [][ ListStepOf("back")
        => /\ session'.view =
                 CASE session.view.kind = "Selected" -> session.view.return_to
                   [] session.view.kind = "Peek" -> Menu
                   [] OTHER -> session.view
           /\ session'.entries = session.entries
           /\ session'.seen_random = session.seen_random
           /\ peeked' = peeked
           /\ hist'[1].out \notin OpOutcomes
           /\ NoMutation ]_vars

\* back returned from an entry drawn at random on the second page of a Peek
\* view to that page.
C26_Witness ==
    /\ Len(hist) = 1
    /\ hist[1].handler = "cb"
    /\ hist[1].action = "back"
    /\ session.view.kind = "Peek"
    /\ session.view.page = 1
    /\ session.seen_random # { }

----------------------------------------------------------------------------
(* The removals from the snapshot: finish_now, del2, the instant delete    *)
(* message and the finish with a title.                                    *)

FINISH_TITLE_PROMPT_TTL_SECS == 5 * 60

HTTP == << "h", "t", "t", "p", ":", "/", "/" >>
HTTPS == << "h", "t", "t", "p", "s", ":", "/", "/" >>

\* text[i..].starts_with(pat)
StartsWithAt(text, pat, i) ==
    /\ i + Len(pat) - 1 <= Len(text)
    /\ SubSeq(text, i, i + Len(pat) - 1) = pat

\* is_http_link
is_http_link(link) == StartsWithAt(link, HTTP, 1) \/ StartsWithAt(link, HTTPS, 1)

\* char::is_whitespace, for the characters of the model
Whitespace == { SPACE, TAB, NL }

\* trim_end_matches(|c| ")]}>\"'.,;:!?".contains(c))
RECURSIVE TrimEndMatches(_)
TrimEndMatches(s) ==
    IF s # << >>
       /\ Last(s) \in { ")", "]", "}", ">", "\"", "'", ".", ",", ";", ":", "!", "?" }
    THEN TrimEndMatches(Front(s))
    ELSE s

\* str::trim_end
RECURSIVE TrimEnd(_)
TrimEnd(s) ==
    IF s # << >> /\ Last(s) \in Whitespace THEN TrimEnd(Front(s)) ELSE s

\* trim_link
trim_link(link) == TrimEndMatches(TrimEnd(TrimStart(link)))

\* The second loop of extract_links from the position scan on: every
\* "http://" or "https://" up to the next whitespace, trimmed, pushed once.
RECURSIVE ScanLinks(_, _, _)
ScanLinks(text, scan, links) ==
    LET hits == { p \in scan..Len(text) :
                    StartsWithAt(text, HTTP, p) \/ StartsWithAt(text, HTTPS, p) } IN
    IF hits = { } THEN links
    ELSE LET start == CHOOSE p \in hits : \A q \in hits : p <= q
             ws    == { q \in start..Len(text) : text[q] \in Whitespace }
             end   == IF ws = { } THEN Len(text) + 1
                      ELSE CHOOSE q \in ws : \A r \in ws : q <= r
             url   == trim_link(SubSeq(text, start, end - 1)) IN
         ScanLinks(text, end,
                   IF is_http_link(url) /\ url \notin Range(links)
                   THEN Append(links, url) ELSE links)

\* extract_links of a text without a markdown link "[label](url)": the
\* first loop finds no "[" and the links are those of the scan.
extract_links(text) == ScanLinks(text, 1, << >>)

\* EntryBlock::display_lines
display_lines(e) ==
    IF e = << >> THEN e
    ELSE IF StartsWithDashSpace(e[1]) THEN [ e EXCEPT ![1] = Tail(Tail(e[1])) ]
    ELSE IF StartsWithDash(e[1]) THEN [ e EXCEPT ![1] = TrimStart(Tail(e[1])) ]
    ELSE e

\* entry_with_title: the block with its first line replaced by
\* "- [title](link)".
entry_with_title(entry, title, link) ==
    LET e    == from_block(entry)
        line == << DASH, SPACE, "[" >> \o title \o << "]", "(" >> \o link \o << ")" >> IN
    block_string(IF e = << >> THEN << line >> ELSE [ e EXCEPT ![1] = line ])

\* FinishTitlePrompt { entry, link, return_to, expires_at }
FinishTitlePrompt(entry, link, return_to, expires_at) ==
    [ entry |-> entry, link |-> link, return_to |-> return_to,
      expires_at |-> expires_at ]

\* norm_target_index: the index the message is about, 0 for None.
norm_target_index(s, pk) ==
    CASE s.view.kind \in { "Selected", "FinishConfirm" } -> s.view.index
      [] s.view.kind = "Peek" ->
            LET indices == peek_indices_for_session(s, pk, s.view.mode, s.view.page) IN
            IF Len(indices) = 1 THEN indices[1] ELSE 0
      [] OTHER -> 0

----------------------------------------------------------------------------
(* SpecRemoval: a List session on MaxRemovalEntries entries with a link    *)
(* each; the user pages through the Top view, picks entries and removes up *)
(* to MaxRemovals of them, while another session marks entries as peeked.  *)

MaxRemovalEntries == 7
MaxRemovalPage == 2
MaxRemovals == 1
\* The user picks among the first MaxPick entries of a page.
MaxPick == 1
\* Another session shows the first MaxOutsidePeeks entries only.
MaxOutsidePeeks == 3

RemovalEntries ==
    [ i \in 1..MaxRemovalEntries |-> << << DASH, SPACE >> \o HTTP \o << ToString(i) >> >> ]

\* The titles the user sends: none, and "t".
Titles == { << >>, << "t" >> }

RemovalInit ==
    /\ rlFile = write_entries(<< >>, RemovalEntries)
    /\ finFile = << >>
    /\ queue = << >>
    /\ queueFile = << >>
    /\ sweep = Idle
    /\ undo = << >>
    /\ undoFile = << >>
    /\ undoSessions = { }
    /\ session = ListSession("List", read_entries(rlFile).entries, Menu, { })
    /\ now = 0
    /\ nextId = 1
    /\ faults = 0
    /\ hist = << >>
    /\ swept = << >>
    /\ owed = << >>
    /\ log = << >>
    /\ lock = "free"
    /\ tasks = << >>
    /\ peeked = { }
    /\ prompts = << >>
    /\ active = 0
    /\ resFile = << >>

RemovalCallbacks ==
    { Callback(a, 0) : a \in { "top", "next", "back", "finish", "finish_now",
                               "delete", "del2" } }
    \cup { Callback("pick", n) : n \in 1..MaxPick }

\* handle_list_callback for the callback cb; the user presses no button
\* while the prompt for a title is pending.
RemovalStep(cb) ==
    /\ session.open
    /\ prompts = << >>
    /\ cb.action = "next" =>
          session.view.kind = "Peek" /\ session.view.page < MaxRemovalPage
    /\ cb.action \in { "finish", "delete" } => Len(undo) < MaxRemovals
    /\ ListRun(session, cb, peeked, "cb")
    /\ UNCHANGED << sweep, undoSessions, now, swept, log, lock, tasks, prompts, active, resFile >>

\* The arm "finish_title" of handle_list_callback.
FinishTitle ==
    /\ session.open
    /\ session.view.kind = "FinishConfirm"
    /\ LET selected == session.view.selected
           index == session.view.index IN
       /\ session' = [ session EXCEPT !.view = selected ]
       /\ IF index > Len(session.entries)
          THEN /\ hist' = Ended("cb", Callback("finish_title", 0), "Item not found.")
               /\ UNCHANGED prompts
          ELSE LET entry == session.entries[index]
                   links == extract_links(JoinNL(display_lines(entry))) IN
               IF links = << >>
               THEN /\ hist' = Ended("cb", Callback("finish_title", 0),
                                     "No link found for a title.")
                    /\ UNCHANGED prompts
               ELSE /\ prompts' = << FinishTitlePrompt(
                                        block_string(entry), links[1],
                                        IF selected.kind = "Selected"
                                        THEN selected.return_to ELSE Menu,
                                        now + FINISH_TITLE_PROMPT_TTL_SECS) >>
                    /\ hist' = Ended("cb", Callback("finish_title", 0), "")
    /\ UNCHANGED << rlFile, finFile, queue, queueFile, sweep, undo, undoFile,
                    undoSessions, now, nextId, faults, swept, owed, log, lock,
                    tasks, peeked, active, resFile >>

\* The session handle_finish_title_response leaves when apply_user_op
\* answered `out` for the move of the prompt's entry, found at entry_index.
finish_title_session(s, prompt, entry_index, out, pk) ==
    IF out = "Applied"
    THEN normalize_peek_view(
            [ s EXCEPT !.entries = RemoveAt(s.entries, entry_index),
                       !.view = prompt.return_to ], pk)
    ELSE s

\* handle_message with a pending finish-title prompt that has not expired,
\* and handle_finish_title_response for the title sent.
FinishTitleResponse(title) ==
    /\ prompts # << >>
    /\ prompts[1].expires_at > now
    /\ session.open
    /\ LET prompt == prompts[1]
           reply == Callback("finish_title_response", 0)
           entry_index == Position(session.entries, prompt.entry) IN
       IF title = << >>
       THEN /\ prompts' = << [ prompt EXCEPT
                                 !.expires_at = now + FINISH_TITLE_PROMPT_TTL_SECS ] >>
            /\ hist' = Ended("msg", reply, "Provide a title.")
            /\ UNCHANGED << rlFile, finFile, queue, queueFile, faults, undo, undoFile,
                            nextId, session, owed >>
       ELSE IF entry_index = 0
       THEN /\ prompts' = << >>
            /\ hist' = Ended("msg", reply, "Item not found.")
            /\ UNCHANGED << rlFile, finFile, queue, queueFile, faults, undo, undoFile,
                            nextId, session, owed >>
       ELSE LET updated_entry == entry_with_title(prompt.entry, title, prompt.link)
                op == Op("MoveToFinishedUpdated", prompt.entry, SomeText(updated_entry)) IN
            \E r \in apply_user_op(op, Stores, queue, faults) :
               /\ Applies(r)
               /\ prompts' = << >>
               /\ session' = finish_title_session(session, prompt, entry_index,
                                                  r.out, peeked)
               /\ IF r.out = "Applied"
                  THEN /\ undo' = add_undo(undo, nextId, "MoveToFinished",
                                           updated_entry, now)
                       /\ undoFile' = undo'
                       /\ nextId' = nextId + 1
                  ELSE UNCHANGED << undo, undoFile, nextId >>
               /\ hist' = Ended("msg", reply, r.out)
               /\ owed' = IF r.out = "Queued" THEN Append(owed, op) ELSE owed
    /\ UNCHANGED << sweep, undoSessions, now, swept, log, lock, tasks, peeked,
                    active, resFile >>

\* The session handle_instant_delete_message leaves when apply_user_op
\* answered `out` for the deletion of the entry at target_index.
instant_delete_session(s, target_index, out, pk) ==
    IF out = "Applied"
    THEN normalize_peek_view(
            [ s EXCEPT !.entries = RemoveAt(s.entries, target_index),
                       !.view = IF s.view.kind = "Selected"
                                THEN s.view.return_to ELSE s.view ], pk)
    ELSE s

\* handle_instant_delete_message: the user sends "del" or "delete".
InstantDelete ==
    /\ session.open
    /\ prompts = << >>
    /\ Len(undo) < MaxRemovals
    /\ LET target_index == norm_target_index(session, peeked)
           msg == Callback("instant_delete", 0) IN
       IF target_index = 0 \/ target_index > Len(session.entries)
       THEN /\ hist' = Ended("msg", msg, "Couldn't delete.")
            /\ UNCHANGED << rlFile, finFile, queue, queueFile, faults, undo, undoFile,
                            nextId, session, owed >>
       ELSE LET op == Op("Delete", block_string(session.entries[target_index]), NoText) IN
            \E r \in apply_user_op(op, Stores, queue, faults) :
               /\ Applies(r)
               /\ session' = instant_delete_session(session, target_index, r.out, peeked)
               /\ IF r.out = "Applied"
                  THEN /\ undo' = add_undo(undo, nextId, "Delete", op.entry, now)
                       /\ undoFile' = undo'
                       /\ nextId' = nextId + 1
                  ELSE UNCHANGED << undo, undoFile, nextId >>
               /\ hist' = Ended("msg", msg, r.out)
               /\ owed' = IF r.out = "Queued" THEN Append(owed, op) ELSE owed
    /\ UNCHANGED << sweep, undoSessions, now, swept, log, lock, tasks, peeked,
                    prompts, active, resFile >>

RemovalNext ==
    \/ \E cb \in RemovalCallbacks : RemovalStep(cb)
    \/ FinishTitle
    \/ \E title \in Titles : FinishTitleResponse(title)
    \/ InstantDelete
    \/ \E i \in 1..MaxOutsidePeeks : OutsidePeek(block_string(RemovalEntries[i]))

SpecRemoval == RemovalInit /\ [][RemovalNext]_vars

\* The step is a removal from the snapshot: finish_now, del2, the instant
\* delete or the finish with a title, with the outcome Applied.
Removed ==
    /\ Len(hist') = 1
    /\ hist'[1].out = "Applied"
    /\ \/ hist'[1].handler = "cb" /\ hist'[1].action \in { "finish_now", "del2" }
       \/ hist'[1].handler = "msg"
          /\ hist'[1].action \in { "instant_delete", "finish_title_response" }

\* The view the removal produces before normalize_peek_view is called.
RemovalBase ==
    CASE hist'[1].action \in { "finish_now", "del2" } ->
            IF session.view.selected.kind = "Selected"
            THEN session.view.selected.return_to ELSE Menu
      [] hist'[1].action = "instant_delete" ->
            IF session.view.kind = "Selected" THEN session.view.return_to
            ELSE session.view
      [] hist'[1].action = "finish_title_response" -> prompts[1].return_to

\* C27: after a removal from the snapshot, if the resulting view is
\* Peek{mode, page}, that page has no candidates and page > 0, the page is
\* decremented by exactly one; in every other case the view the removal
\* produced is left as it is.
C27_RemovalStepsBackOnePage ==
    [][ Removed =>
          LET base == RemovalBase
              empty == /\ base.kind = "Peek"
                       /\ peek_indices_for_session(session', peeked, base.mode,
                                                   base.page) = << >> IN
          session'.view = IF empty /\ base.page > 0
                          THEN Peek(base.mode, base.page - 1)
                          ELSE base ]_vars

\* A title was sent for the entry picked on the third page; the session is
\* back on the second page, which has no candidates either, so the page
\* came from the third one by a decrement.
C27_Witness ==
    /\ Len(hist) = 1
    /\ hist[1].handler = "msg"
    /\ hist[1].action = "finish_title_response"
    /\ hist[1].out = "Applied"
    /\ session.view = Peek("Top", 1)
    /\ peek_indices_for_session(session, peeked, "Top", 1) = << >>
    /\ Len(session.entries) = MaxRemovalEntries - 1

\* The session has an entry a Peek page can show: in a List session an
\* entry whose block string is not peeked.
HasVisible(s, pk) ==
    \E i \in 1..Len(s.entries) :
       s.kind = "Search" \/ block_string(s.entries[i]) \notin pk

\* C28: after a removal that returns the session to a Peek view, the page
\* shown has a candidate whenever the session still has a visible entry,
\* also when entries were marked peeked since the page was left.
C28_PageAfterRemovalHasCandidate ==
    [][ ( /\ Removed
          /\ session'.view.kind = "Peek"
          /\ HasVisible(session', peeked') )
        => peek_indices_for_session(session', peeked', session'.view.mode,
                                    session'.view.page) # << >> ]_vars

\* The notice of a random draw with nothing left to draw.
ALL_PEEKED_NOTICE == "Everything's been peeked already."

\* C29: in a List session every successful random selects a snapshot index
\* i that was not in seen_random and whose block string was not in the
\* peeked set when the handler started, adds i to seen_random and the block
\* string to the peeked set, and sets the view to Selected{return_to = the
\* view before the action, index = i}; in a Search session random changes
\* nothing.
C29_RandomDrawsFresh ==
    [][ /\ ( /\ ListStepOf("random")
             /\ session.kind = "List"
             /\ session.entries # << >>
             /\ hist'[1].out # ALL_PEEKED_NOTICE )
           => \E i \in 1..Len(session.entries) :
                 /\ i \notin session.seen_random
                 /\ block_string(session.entries[i]) \notin peeked
                 /\ session'.seen_random = session.seen_random \cup { i }
                 /\ peeked' = peeked \cup { block_string(session.entries[i]) }
                 /\ session'.view = [ kind |-> "Selected", return_to |-> session.view,
                                      index |-> i ]
                 /\ session'.entries = session.entries
                 /\ NoMutation
        /\ ( ListStepOf("random") /\ session.kind = "Search" )
           => /\ session' = session
              /\ peeked' = peeked
              /\ NoMutation ]_vars

\* The second draw of a List session, made from a Peek page.
C29_Witness ==
    /\ Len(hist) = 1
    /\ hist[1].handler = "cb"
    /\ hist[1].action = "random"
    /\ session.kind = "List"
    /\ session.view.kind = "Selected"
    /\ session.view.return_to.kind = "Peek"
    /\ Cardinality(session.seen_random) = 2
    /\ block_string(session.entries[session.view.index]) \in peeked

----------------------------------------------------------------------------
(* SpecOrigin: the callbacks of one session arriving from the chats and    *)
(* the messages that carry a keyboard with the session's id.  The session  *)
(* has the fields chat_id and message_id besides those of ListSession.     *)

MaxChats == 2
MaxMessages == 2

\* Where a callback query comes from: q.message.chat.id and q.message.id.
Origins == [ chat : 1..MaxChats, message : 1..MaxMessages ]

OriginInit ==
    /\ rlFile = write_entries(<< >>, << <<EA>>, <<EB>> >>)
    /\ finFile = << >>
    /\ queue = << >>
    /\ queueFile = << >>
    /\ sweep = Idle
    /\ undo = << >>
    /\ undoFile = << >>
    /\ undoSessions = { }
    /\ session = [ open |-> TRUE, kind |-> "List",
                   entries |-> read_entries(rlFile).entries, view |-> Menu,
                   seen_random |-> { }, chat_id |-> 1, message_id |-> 1 ]
    /\ now = 0
    /\ nextId = 1
    /\ faults = 0
    /\ hist = << >>
    /\ swept = << >>
    /\ owed = << >>
    /\ log = << >>
    /\ lock = "free"
    /\ tasks = << >>
    /\ peeked = { }
    /\ prompts = << >>
    /\ active = 0
    /\ resFile = << >>

\* handle_list_callback for the callback cb of a query that comes from
\* `from`.  A session of another chat is re-inserted as it is; otherwise the
\* action runs, the message of the query is edited and becomes the
\* session's message_id (no arm reads message_id, so it is set on the
\* session the action starts from), and the session is re-inserted.
OriginCallback(from, cb) ==
    /\ session.open
    /\ IF session.chat_id # from.chat
       THEN /\ hist' = Ended(from, cb, "answered")
            /\ UNCHANGED << rlFile, finFile, queue, queueFile, faults, undo, undoFile,
                            nextId, session, owed, peeked >>
       ELSE ListRun([ session EXCEPT !.message_id = from.message ], cb, peeked, from)
    /\ UNCHANGED << sweep, undoSessions, now, swept, log, lock, tasks, prompts, active, resFile >>

OriginNext == \E from \in Origins, cb \in HoldCallbacks : OriginCallback(from, cb)

SpecOrigin == OriginInit /\ [][OriginNext]_vars

\* C30: a list callback that comes from another chat, or from a message
\* that is not the session's current backing message, is discarded: the
\* session is re-inserted with its view, snapshot and message_id unchanged
\* and no store mutation is submitted.
C30_ForeignCallbackDiscarded ==
    [][ ( /\ Len(hist') = 1
          /\ hist'[1].handler \in Origins
          /\ \/ hist'[1].handler.chat # session.chat_id
             \/ hist'[1].handler.message # session.message_id )
        => /\ session'.view = session.view
           /\ session'.entries = session.entries
           /\ session'.message_id = session.message_id
           /\ hist'[1].out \notin OpOutcomes
           /\ NoMutation ]_vars

----------------------------------------------------------------------------
(* SpecSessions: the chat opens list and search sessions one after the     *)
(* other and presses buttons of any message that carries a session id.     *)
(* Here the variable session is the whole AppState.sessions map, from the  *)
(* session ids to the sessions; the ids are 1, 2, ... in the order of      *)
(* short_id().                                                             *)

MaxSessions == 2

\* str::to_lowercase, for the letters of the model
to_lowercase(s) ==
    [ i \in 1..Len(s) |-> CASE s[i] = "A" -> "a" [] s[i] = "B" -> "b" [] OTHER -> s[i] ]

\* str::split_whitespace from the position i on, `term` the term being read
RECURSIVE SplitWhitespaceFrom(_, _, _, _)
SplitWhitespaceFrom(s, i, terms, term) ==
    IF i > Len(s) THEN IF term = << >> THEN terms ELSE Append(terms, term)
    ELSE IF s[i] \in Whitespace
    THEN SplitWhitespaceFrom(s, i + 1,
                             IF term = << >> THEN terms ELSE Append(terms, term), << >>)
    ELSE SplitWhitespaceFrom(s, i + 1, terms, Append(term, s[i]))

\* str::contains
Contains(haystack, needle) ==
    \E i \in 1..(Len(haystack) + 1) : StartsWithAt(haystack, needle, i)

\* matches_query
matches_query(entry, query) ==
    LET terms == SplitWhitespaceFrom(to_lowercase(query), 1, << >>, << >>)
        haystack == to_lowercase(JoinNL(display_lines(entry))) IN
    /\ terms # << >>
    /\ \A k \in 1..Len(terms) : Contains(haystack, terms[k])

\* search_entries
search_entries(entries, query) == SelectSeq(entries, LAMBDA e : matches_query(e, query))

\* The queries of /search.
Queries == { << "A" >>, << "b", " " >>, << "z" >> }

SessionsInit ==
    /\ rlFile = write_entries(<< >>, << <<EA>>, <<EB>> >>)
    /\ finFile = << >>
    /\ queue = << >>
    /\ queueFile = << >>
    /\ sweep = Idle
    /\ undo = << >>
    /\ undoFile = << >>
    /\ undoSessions = { }
    /\ session = << >>
    /\ now = 0
    /\ nextId = 1
    /\ faults = 0
    /\ hist = << >>
    /\ swept = << >>
    /\ owed = << >>
    /\ log = << >>
    /\ lock = "free"
    /\ tasks = << >>
    /\ peeked = { }
    /\ prompts = << >>
    /\ active = 0
    /\ resFile = << >>

\* sessions.insert(session_id, session); active_sessions.insert(chat, session_id)
Opened(command, s) ==
    /\ session' = ( nextId :> s ) @@ session
    /\ active' = nextId
    /\ nextId' = nextId + 1
    /\ hist' = Ended(0, Callback(command, 0), "")

\* handle_list_command
ListCommand ==
    /\ nextId <= MaxSessions
    /\ Opened("list", ListSession("List", read_entries(rlFile).entries, Menu, { }))
    /\ UNCHANGED << rlFile, finFile, queue, queueFile, sweep, undo, undoFile,
                    undoSessions, now, faults, swept, owed, log, lock, tasks, peeked,
                    prompts, resFile >>

\* handle_search_command
SearchCommand(query) ==
    /\ nextId <= MaxSessions
    /\ LET matches == search_entries(read_entries(rlFile).entries, query) IN
       IF matches = << >>
       THEN /\ hist' = Ended(0, Callback("search", 0), "No matches.")
            /\ UNCHANGED << session, active, nextId >>
       ELSE Opened("search", ListSession("Search", matches, Peek("Top", 0), { }))
    /\ UNCHANGED << rlFile, finFile, queue, queueFile, sweep, undo, undoFile,
                    undoSessions, now, faults, swept, owed, log, lock, tasks, peeked,
                    prompts, resFile >>

SessionCallbacks ==
    { Callback(a, 0) : a \in { "menu", "top", "back", "random", "finish",
                               "finish_now", "close" } }
    \cup { Callback("pick", 1) }

\* The sessions map without the id.
Without(map, id) == [ i \in DOMAIN map \ { id } |-> map[i] ]

\* handle_list_callback for a query that carries the session id `id`:
\* sessions.remove(id), the action, and unless the session was closed the
\* re-insert with active_sessions.insert(chat, id).
SessionCallback(id, cb) ==
    /\ IF id \notin DOMAIN session
       THEN /\ hist' = Ended(id, cb, "answered")
            /\ UNCHANGED << rlFile, finFile, queue, queueFile, faults, undo, undoFile,
                            nextId, session, owed, peeked, active >>
       ELSE LET s == session[id]
                op == list_op(s, cb.action, now) IN
            IF op.kind # ""
            THEN \E r \in apply_user_op(op, Stores, queue, faults) :
                    /\ Applies(r)
                    /\ session' = [ session EXCEPT
                                      ![id] = finish_now_session(s, r.out, peeked) ]
                    /\ active' = id
                    /\ IF r.out = "Applied"
                       THEN /\ undo' = add_undo(undo, nextId, op.kind, op.entry, now)
                            /\ undoFile' = undo'
                       ELSE UNCHANGED << undo, undoFile >>
                    /\ hist' = Ended(id, cb, r.out)
                    /\ owed' = IF r.out = "Queued" THEN Append(owed, op) ELSE owed
                    /\ UNCHANGED << peeked, nextId >>
            ELSE IF cb.action = "close"
            THEN /\ IF s.kind = "Search"
                    THEN /\ session' = Without(session, id)
                         /\ active' = IF active = id THEN 0 ELSE active
                    ELSE /\ session' = session
                         /\ active' = id
                 /\ hist' = Ended(id, cb, "")
                 /\ UNCHANGED << rlFile, finFile, queue, queueFile, faults, undo,
                                 undoFile, nextId, owed, peeked >>
            ELSE \E a \in list_action(s, cb.action, cb.arg, peeked) :
                    /\ session' = [ session EXCEPT ![id] = a.session ]
                    /\ active' = id
                    /\ peeked' = peeked \cup a.add
                    /\ hist' = Ended(id, cb, a.reply)
                    /\ UNCHANGED << rlFile, finFile, queue, queueFile, faults, undo,
                                    undoFile, nextId, owed >>
    /\ UNCHANGED << sweep, undoSessions, now, swept, log, lock, tasks, prompts, resFile >>

SessionsNext ==
    \/ ListCommand
    \/ \E query \in Queries : SearchCommand(query)
    \/ \E id \in 1..MaxSessions, cb \in SessionCallbacks : SessionCallback(id, cb)

SpecSessions == SessionsInit /\ [][SessionsNext]_vars

\* C31: once the chat has opened a newer session, a callback that carries
\* the id of an older one changes no state, submits no mutation and does
\* not make the older session the chat's active session again.
C31_SupersededSessionIsGone ==
    [][ ( /\ Len(hist') = 1
          /\ hist'[1].handler \in 1..MaxSessions
          /\ hist'[1].handler < nextId - 1 )
        => /\ UNCHANGED << session, active, peeked >>
           /\ hist'[1].out \notin OpOutcomes
           /\ NoMutation ]_vars

----------------------------------------------------------------------------
(* SpecDepth: a List session on MaxDepthEntries entries and the actions    *)
(* that change the view without removing an entry.                         *)

MaxDepthEntries == 3

DepthEntries == [ i \in 1..MaxDepthEntries |-> << << DASH, SPACE, ToString(i) >> >> ]

DepthCallbacks ==
    { Callback(a, 0) : a \in { "menu", "top", "bottom", "next", "prev", "random",
                               "finish", "finish_cancel", "delete", "del1",
                               "cancel_del", "back" } }
    \cup { Callback("pick", n) : n \in 1..2 }

DepthInit ==
    /\ rlFile = write_entries(<< >>, DepthEntries)
    /\ finFile = << >>
    /\ queue = << >>
    /\ queueFile = << >>
    /\ sweep = Idle
    /\ undo = << >>
    /\ undoFile = << >>
    /\ undoSessions = { }
    /\ session = ListSession("List", read_entries(rlFile).entries, Menu, { })
    /\ now = 0
    /\ nextId = 1
    /\ faults = 0
    /\ hist = << >>
    /\ swept = << >>
    /\ owed = << >>
    /\ log = << >>
    /\ lock = "free"
    /\ tasks = << >>
    /\ peeked = { }
    /\ prompts = << >>
    /\ active = 0
    /\ resFile = << >>

DepthNext == \E cb \in DepthCallbacks : ListCallback(cb)

SpecDepth == DepthInit /\ [][DepthNext]_vars

\* The number of boxed views under a ListView, through return_to and
\* selected.
RECURSIVE Depth(_)
Depth(view) ==
    CASE view.kind = "Selected" -> 1 + Depth(view.return_to)
      [] view.kind \in { "FinishConfirm", "DeleteConfirm" } -> 1 + Depth(view.selected)
      [] OTHER -> 0

\* C32: the nesting depth of the session's view is at most 3 after every
\* sequence of menu, top, bottom, next, prev, pick, random, finish, delete,
\* del1, cancel and back actions.
C32_ViewDepthAtMostThree == Depth(session.view) <= 3

----------------------------------------------------------------------------
(* SpecMove: one move at a time, write by write.  tasks holds the move in  *)
(* flight: its operation, the run of its *_sync function on the files it   *)
(* read, the number of its writes that are done and the attempt of         *)
(* with_retries it belongs to.  A write can fail, which ends the attempt,   *)
(* and the process can stop between two writes.                            *)

\* The I/O errors and crashes in a behaviour of SpecMove.
MoveFaults == 2

MoveOps ==
    { Op(k, e, NoText) : k \in { "MoveToFinished", "MoveToReadLater" }, e \in OpEntries }
    \cup
    { Op("MoveToFinishedUpdated", e, SomeText(u)) : e \in OpEntries, u \in OpEntries }

MoveInit ==
    /\ rlFile \in InitFiles
    /\ finFile \in InitFiles
    /\ EntryCount(Stores) < MaxEntries
    /\ queue = << >>
    /\ queueFile = << >>
    /\ sweep = Idle
    /\ undo = << >>
    /\ undoFile = << >>
    /\ undoSessions = { }
    /\ session = NoSession
    /\ now = 0
    /\ nextId = 1
    /\ faults = MoveFaults
    /\ hist = << >>
    /\ swept = << >>
    /\ owed = << >>
    /\ log = << >>
    /\ lock = "free"
    /\ tasks = << >>
    /\ peeked = { }
    /\ prompts = << >>
    /\ active = 0
    /\ resFile = << >>

MoveEnded(op, out, wrote) == << [ op |-> op, out |-> out, wrote |-> wrote ] >>

MoveFrame ==
    UNCHANGED << queue, queueFile, sweep, undo, undoFile, undoSessions, session, now,
                 nextId, swept, owed, log, lock, peeked, prompts, active, resFile >>

\* An attempt of with_retries begins: the *_sync function reads the files and
\* returns early, or goes on to its writes.
MoveBegin(op, attempt) ==
    LET run == SyncRun(op, Stores) IN
    IF run.early # ""
    THEN tasks' = << >> /\ hist' = MoveEnded(op, run.early, -1)
    ELSE /\ tasks' = << [ op |-> op, run |-> run, wrote |-> 0, attempt |-> attempt ] >>
         /\ hist' = << >>

\* apply_op is called with a move.
MoveStart(op) ==
    /\ tasks = << >>
    /\ MoveBegin(op, 0)
    /\ UNCHANGED << rlFile, finFile, faults >>
    /\ MoveFrame

\* The next write_entries of the move succeeds.
MoveWrite ==
    /\ tasks # << >>
    /\ LET t == tasks[1]
           st == t.run.writes[t.wrote + 1] IN
       /\ rlFile' = st.rl
       /\ finFile' = st.fin
       /\ IF t.wrote + 1 = Len(t.run.writes)
          THEN tasks' = << >> /\ hist' = MoveEnded(t.op, t.run.out, t.wrote + 1)
          ELSE tasks' = << [ t EXCEPT !.wrote = t.wrote + 1 ] >> /\ hist' = << >>
    /\ UNCHANGED faults
    /\ MoveFrame

\* The next write_entries of the move fails: with_retries starts the next
\* attempt, or gives the error after the third.
MoveFail ==
    /\ tasks # << >>
    /\ faults > 0
    /\ faults' = faults - 1
    /\ LET t == tasks[1] IN
       IF t.attempt + 1 < RETRY_ATTEMPTS
       THEN MoveBegin(t.op, t.attempt + 1)
       ELSE tasks' = << >> /\ hist' = MoveEnded(t.op, "Err", t.wrote)
    /\ UNCHANGED << rlFile, finFile >>
    /\ MoveFrame

\* The process stops while the move is in flight.
MoveCrash ==
    /\ tasks # << >>
    /\ faults > 0
    /\ faults' = faults - 1
    /\ tasks' = << >>
    /\ hist' = MoveEnded(tasks[1].op, "Crashed", tasks[1].wrote)
    /\ UNCHANGED << rlFile, finFile >>
    /\ MoveFrame

MoveNext ==
    \/ \E op \in MoveOps : MoveStart(op)
    \/ MoveWrite
    \/ MoveFail
    \/ MoveCrash

SpecMove == MoveInit /\ [][MoveNext]_vars

\* The block the move puts into its destination.
MovedBlock(op) ==
    IF op.kind = "MoveToFinishedUpdated"
    THEN block_string(from_block(op.updated_entry.text))
    ELSE op.entry

InSource(op) ==
    op.entry \in BlockSet(IF op.kind = "MoveToReadLater" THEN finFile ELSE rlFile)

InDestination(op) ==
    MovedBlock(op) \in BlockSet(IF op.kind = "MoveToReadLater" THEN rlFile ELSE finFile)

\* C33: a move writes its destination before its source: before the first
\* write the entry is in the source, between the two writes it is in both
\* stores, and when the move has ended after a write (applied, failed or
\* stopped by a crash) the entry is in at least one of the two stores.
C33_MovedEntryNeverLost ==
    /\ tasks # << >> =>
          /\ InSource(tasks[1].op)
          /\ tasks[1].wrote = 1 => InDestination(tasks[1].op)
    /\ ( hist # << >> /\ hist[1].wrote >= 0 ) =>
          InSource(hist[1].op) \/ InDestination(hist[1].op)

\* A move was stopped between its two writes.
C33_Witness ==
    /\ hist # << >>
    /\ hist[1].out \in { "Err", "Crashed" }
    /\ hist[1].wrote = 1
    /\ InSource(hist[1].op) /\ InDestination(hist[1].op)

----------------------------------------------------------------------------
(* SpecResource: AddResource operations applied to one resource file *)

\* "- (Auto-Resource): "
RESOURCE_PREFIX ==
    << DASH, SPACE, "(", "A", "u", "t", "o", DASH, "R", "e", "s", "o", "u", "r", "c", "e",
       ")", ":", SPACE >>

\* resource_block_from_text
resource_block_from_text(text) ==
    LET ls == StrLines(normalize_line_endings(text))
        lines == IF ls = << >> THEN << << >> >> ELSE ls IN
    JoinNL([ lines EXCEPT ![1] = RESOURCE_PREFIX \o lines[1] ])

\* add_resource_entry_sync(path, entry_block): the block is put in front of
\* the file's contents as they are, without a rewrite of the parsed entries.
add_resource_entry_sync(file, entry_block) ==
    LET normalized == normalize_line_endings(file)
        entries == parse_entries(normalized).entries IN
    IF \E i \in 1..Len(entries) : block_string(entries[i]) = entry_block
    THEN [ file |-> file, out |-> "Duplicate" ]
    ELSE LET preserved == IF normalized # << >> /\ Last(normalized) # NL
                          THEN Append(normalized, NL) ELSE normalized
             content == entry_block \o << NL >> \o preserved IN
         [ file |-> content, out |-> "Added" ]

\* The message texts a resource is added from.
ResourceTexts == { << "a" >>, << "b" >>, << "a", NL, "b" >> }

\* The resource file holds at most this many bytes.
MaxResourceBytes == 80

ResourceInit ==
    /\ rlFile = << >>
    /\ finFile = << >>
    /\ queue = << >>
    /\ queueFile = << >>
    /\ sweep = Idle
    /\ undo = << >>
    /\ undoFile = << >>
    /\ undoSessions = { }
    /\ session = NoSession
    /\ now = 0
    /\ nextId = 1
    /\ faults = 0
    /\ hist = << >>
    /\ swept = << >>
    /\ owed = << >>
    /\ log = << >>
    /\ lock = "free"
    /\ tasks = << >>
    /\ peeked = { }
    /\ prompts = << >>
    /\ active = 0
    /\ resFile \in { write_entries(p, << >>) : p \in InitPreambles }

\* add_resource_from_text: apply_op with an AddResource made from the text;
\* AddOutcome::Added is answered as Applied.
AddResource(text) ==
    LET block == resource_block_from_text(text)
        r == add_resource_entry_sync(resFile, block) IN
    /\ Len(r.file) <= MaxResourceBytes
    /\ resFile' = r.file
    /\ hist' = << [ text |-> text,
                    out |-> IF r.out = "Added" THEN "Applied" ELSE r.out ] >>
    /\ UNCHANGED << rlFile, finFile, queue, queueFile, sweep, undo, undoFile,
                    undoSessions, session, now, nextId, faults, swept, owed, log, lock,
                    tasks, peeked, prompts, active >>

ResourceNext == \E text \in ResourceTexts : AddResource(text)

SpecResource == ResourceInit /\ [][ResourceNext]_vars

\* C34: an AddResource of a text that was added before (whatever the file
\* held then, a preamble included) returns Duplicate and leaves the file
\* unchanged; here for the text of the submission just before it.
C34_SecondAddIsDuplicate ==
    [][ ( hist # << >> /\ hist[1].out = "Applied" /\ hist' # << >>
          /\ hist'[1].text = hist[1].text )
        => hist'[1].out = "Duplicate" /\ resFile' = resFile ]_vars

----------------------------------------------------------------------------
(* Claims about the indices a view holds, checked under SpecList *)

\* The indices held by a view and by the views boxed in it.
RECURSIVE ViewIndices(_)
ViewIndices(view) ==
    CASE view.kind = "Selected" -> { view.index } \cup ViewIndices(view.return_to)
      [] view.kind \in { "FinishConfirm", "DeleteConfirm" } ->
            { view.index } \cup ViewIndices(view.selected)
      [] OTHER -> { }

\* C35: every index held by the session's view, at any nesting level,
\* denotes an entry of the snapshot (it is smaller than the snapshot's
\* length), also after finish or delete removed entries from the snapshot.
C35_ViewIndicesInSnapshot ==
    session.open => \A i \in ViewIndices(session.view) : i \in 1..Len(session.entries)

\* C36: in a List session, when random has just answered "Everything's been
\* peeked already.", the block string of every entry of the snapshot is in
\* the peeked set, also after entries were removed from the snapshot.
C36_AllPeekedMeansAllPeeked ==
    ( /\ session.open
      /\ session.kind = "List"
      /\ Len(hist) = 1
      /\ hist[1].action = "random"
      /\ hist[1].out = ALL_PEEKED_NOTICE )
    => \A i \in 1..Len(session.entries) : block_string(session.entries[i]) \in peeked

----------------------------------------------------------------------------
(* Claims about a move that is retried, checked under SpecStore *)

\* C37: a MoveToFinished or MoveToReadLater of an entry held once by its
\* source and not by its destination, whose attempts failed on the way (the
\* write of the source file among them) and which with_retries then brought
\* to Applied, leaves exactly one copy of the entry in the destination and
\* none in the source.
C37_RetriedMoveMovesOnce ==
    [][ ( /\ Len(hist') = 1
          /\ hist'[1].op.kind \in { "MoveToFinished", "MoveToReadLater" }
          /\ hist'[1].out = "Applied"
          /\ faults' < faults
          /\ LET e == hist'[1].op.entry
                 toFin == hist'[1].op.kind = "MoveToFinished"
                 src == IF toFin THEN hist'[1].rl ELSE hist'[1].fin
                 dst == IF toFin THEN hist'[1].fin ELSE hist'[1].rl IN
             Count(Blocks(src), e) = 1 /\ Count(Blocks(dst), e) = 0 )
        => LET e == hist'[1].op.entry
               toFin == hist'[1].op.kind = "MoveToFinished" IN
           /\ Count(Blocks(IF toFin THEN finFile' ELSE rlFile'), e) = 1
           /\ Count(Blocks(IF toFin THEN rlFile' ELSE finFile'), e) = 0 ]_vars

----------------------------------------------------------------------------
(* SpecLedger: handlers that work on the undo ledger, running side by side. *)
(* add_undo and handle_undos_callback save the ledger while they hold the   *)
(* undo lock, so each is one step.  handle_undo_callback and               *)
(* handle_undos_command clone the ledger under the lock, release the lock   *)
(* and save the clone afterwards: tasks is the set of those that hold a    *)
(* clone they have not saved yet.  The clock stands still and the store     *)
(* files do not fail here.                                                 *)

\* The handlers that hold an unsaved clone of the ledger at one time.
MaxLedgerTasks == 2

\* The short_id()s given out in a behaviour of SpecLedger.
MaxLedgerIds == 2

LedgerInit ==
    /\ rlFile = write_entries(<< >>, << <<EA>>, <<EB>> >>)
    /\ finFile = << >>
    /\ queue = << >>
    /\ queueFile = << >>
    /\ sweep = Idle
    /\ undo = << >>
    /\ undoFile = << >>
    /\ undoSessions = { }
    /\ session = NoSession
    /\ now = 0
    /\ nextId = 1
    /\ faults = 0
    /\ hist = << >>
    /\ swept = << >>
    /\ owed = << >>
    /\ log = << >>
    /\ lock = "free"
    /\ tasks = { }
    /\ peeked = { }
    /\ prompts = << >>
    /\ active = 0
    /\ resFile = << >>

\* A list callback removes an entry (del2, or finish_now for the kind
\* MoveToFinished) and, when the operation was applied, calls add_undo.
LedgerRemove(kind, entry_block) ==
    /\ nextId <= MaxLedgerIds
    /\ LET op == Op(IF kind = "Delete" THEN "Delete" ELSE "MoveToFinished",
                    entry_block, NoText) IN
       \E r \in apply_user_op(op, Stores, queue, faults) :
          /\ Applies(r)
          /\ r.out = "Applied"
          /\ undo' = add_undo(undo, nextId, kind, entry_block, now)
          /\ undoFile' = undo'
          /\ nextId' = nextId + 1
          /\ hist' = Ran("remove", nextId, r.out, "")
    /\ UNCHANGED << sweep, undoSessions, session, now, swept, owed, log, lock, tasks,
                    peeked, prompts, active, resFile >>

\* handle_undo_callback, the block under state.undo.lock(): the record
\* leaves the pruned ledger and the ledger is cloned.  The button pressed is
\* one of an id that was given out.
UndoTake(id, action) ==
    LET pruned == prune_undo(undo, now)
        rest   == without_id(pruned, id) IN
    /\ id < nextId
    /\ Cardinality(tasks) < MaxLedgerTasks
    /\ undo' = rest
    /\ tasks' = tasks \cup { [ handler |-> "undo", id |-> id, action |-> action,
                               found |-> id \in Ids(pruned),
                               records |-> SelectSeq(pruned, LAMBDA r : r.id = id),
                               undo_snapshot |-> rest ] }
    /\ hist' = Ran("undo:take", id, "", "")
    /\ UNCHANGED << rlFile, finFile, queue, queueFile, sweep, undoFile, undoSessions,
                    session, now, nextId, faults, swept, owed, log, lock, peeked,
                    prompts, active, resFile >>

\* handle_undo_callback after the lock is released: save_undo of the clone,
\* and for "undo" the reversal of the record that was found.
UndoSave(t) ==
    /\ t \in tasks
    /\ t.handler = "undo"
    /\ tasks' = tasks \ { t }
    /\ undoFile' = t.undo_snapshot
    /\ IF t.action = "delete"
       THEN /\ hist' = Ran("undo:delete", t.id, "", "")
            /\ UNCHANGED << rlFile, finFile, queue, queueFile, faults, log >>
       ELSE IF ~ t.found
       THEN /\ hist' = Ran("undo", t.id, "", "Undo not found.")
            /\ UNCHANGED << rlFile, finFile, queue, queueFile, faults, log >>
       ELSE LET record == t.records[1] IN
            IF record.expires_at < now
            THEN /\ hist' = Ran("undo", t.id, "", "Undo expired.")
                 /\ UNCHANGED << rlFile, finFile, queue, queueFile, faults, log >>
            ELSE \E r \in apply_user_op(reversal(record), Stores, queue, faults) :
                 /\ Applies(r)
                 /\ log' = Append(log, Submitted(t.id, "undo", reversal(record), r.out))
                 /\ hist' = Ran("undo", t.id, r.out, UndoReply(r.out))
    /\ UNCHANGED << sweep, undo, undoSessions, session, now, nextId, swept, owed, lock,
                    peeked, prompts, active, resFile >>

\* handle_undos_command, the block under state.undo.lock(): the ledger is
\* pruned and cloned.
UndosTake ==
    LET records == prune_undo(undo, now) IN
    /\ Cardinality(tasks) < MaxLedgerTasks
    /\ undo' = records
    /\ tasks' = tasks \cup { [ handler |-> "undos", records |-> records,
                               undo_snapshot |-> records ] }
    /\ hist' = Ran("undos:take", 0, "", "")
    /\ UNCHANGED << rlFile, finFile, queue, queueFile, sweep, undoFile, undoSessions,
                    session, now, nextId, faults, swept, owed, log, lock, peeked,
                    prompts, active, resFile >>

\* handle_undos_command after the lock is released: save_undo of the clone,
\* and the undos list that shows the records.
UndosSave(t) ==
    /\ t \in tasks
    /\ t.handler = "undos"
    /\ tasks' = tasks \ { t }
    /\ undoFile' = t.undo_snapshot
    /\ IF t.records = << >>
       THEN /\ hist' = Ran("undos", 0, "", "No undos.")
            /\ UNCHANGED << undoSessions, nextId >>
       ELSE /\ nextId <= MaxLedgerIds
            /\ undoSessions' = undoSessions \cup { [ id |-> nextId, records |-> t.records ] }
            /\ nextId' = nextId + 1
            /\ hist' = Ran("undos", nextId, "", "")
    /\ UNCHANGED << rlFile, finFile, queue, queueFile, sweep, undo, session, now, faults,
                    swept, owed, log, lock, peeked, prompts, active, resFile >>

LedgerNext ==
    \/ \E kind \in { "Delete", "MoveToFinished" }, e \in OpEntries : LedgerRemove(kind, e)
    \/ \E id \in 1..MaxLedgerIds, action \in { "undo", "delete" } : UndoTake(id, action)
    \/ \E t \in tasks : UndoSave(t)
    \/ UndosTake
    \/ \E t \in tasks : UndosSave(t)
    \/ \E session_id \in 1..MaxLedgerIds, action \in UndosActions, index \in 1..MaxIndex :
          UndosCallback(session_id, action, index)

SpecLedger == LedgerInit /\ [][LedgerNext]_vars

\* C38: once every handler that works on the ledger has finished, the undo
\* file holds exactly the records of the in-memory ledger.
C38_LedgerFileIsLedger == tasks = { } => undoFile = undo

----------------------------------------------------------------------------
(* SpecLocks: the handlers and the retry sweep as the sequences of lock()   *)
(* calls and guard drops they make.  lock gives for each mutex of AppState  *)
(* the tasks that called lock() on it and have not dropped the guard, in    *)
(* the order of their calls: tokio's Mutex hands the guard over in that     *)
(* order, so the first task holds it and the others wait.  tasks gives for  *)
(* each task in flight the sequence it runs and its position in it.         *)

Locks == { "write", "queue", "undo", "sessions", "active", "peeked" }

Acq(l) == [ op |-> "acq", lock |-> l ]
Rel(l) == [ op |-> "rel", lock |-> l ]

\* lock().await on l with the guard dropped before the next lock() call.
Take(l) == << Acq(l), Rel(l) >>

\* apply_user_op: apply_op holds write_lock until it returns; when it
\* failed, queue_op then takes the queue.
ApplyUserOpLocks(failed) == Take("write") \o ( IF failed THEN Take("queue") ELSE << >> )

\* A faulty variant of UndosCallbackLocks: the undo lock is asked for while
\* the write lock is held.
UndosCallbackLocksReversed(failed) ==
    << Acq("write"), Acq("undo"), Rel("undo"), Rel("write") >>
    \o ( IF failed THEN Take("queue") ELSE << >> )

\* handle_undos_callback, "undo": the guard of state.undo lives until the
\* end of the arm, across apply_user_op.
UndosCallbackLocks(failed) ==
    << Acq("undo") >> \o ApplyUserOpLocks(failed) \o << Rel("undo") >>

\* handle_undo_callback: the undo guard is dropped before apply_user_op.
UndoCallbackLocks(failed) == Take("undo") \o ApplyUserOpLocks(failed)

\* handle_list_callback for finish_now or del2: sessions.remove, the peeked
\* snapshot, apply_user_op, add_undo when the operation was applied, and the
\* re-insert into sessions and active_sessions.
ListCallbackLocks(failed) ==
    Take("sessions") \o Take("peeked") \o ApplyUserOpLocks(failed)
    \o ( IF failed THEN << >> ELSE Take("undo") )
    \o Take("sessions") \o Take("active")

\* handle_list_callback for random: the drawn entry is put into peeked.
RandomLocks ==
    Take("sessions") \o Take("peeked") \o Take("peeked") \o Take("sessions")
    \o Take("active")

\* handle_instant_delete_message: the active session is looked up first.
InstantDeleteLocks(failed) ==
    Take("active") \o Take("sessions") \o Take("peeked") \o ApplyUserOpLocks(failed)
    \o ( IF failed THEN << >> ELSE Take("undo") )
    \o Take("sessions")

\* handle_undos_command
UndosCommandLocks == Take("undo")

\* process_queue with one pending operation: the queue is taken, the
\* operation applied, and what failed is put back.
ProcessQueueLocks == Take("queue") \o Take("write") \o Take("queue")

LockPrograms ==
    { UndosCallbackLocks(f) : f \in BOOLEAN }
    \cup { UndoCallbackLocks(f) : f \in BOOLEAN }
    \cup { ListCallbackLocks(f) : f \in BOOLEAN }
    \cup { InstantDeleteLocks(f) : f \in BOOLEAN }
    \cup { RandomLocks, UndosCommandLocks, ProcessQueueLocks }

\* The tasks started in a behaviour of SpecLocks.
MaxLockTasks == 2

LocksInit ==
    /\ rlFile = << >>
    /\ finFile = << >>
    /\ queue = << >>
    /\ queueFile = << >>
    /\ sweep = Idle
    /\ undo = << >>
    /\ undoFile = << >>
    /\ undoSessions = { }
    /\ session = NoSession
    /\ now = 0
    /\ nextId = 1
    /\ faults = 0
    /\ hist = << >>
    /\ swept = << >>
    /\ owed = << >>
    /\ log = << >>
    /\ lock = [ l \in Locks |-> << >> ]
    /\ tasks = << >>
    /\ peeked = { }
    /\ prompts = << >>
    /\ active = 0
    /\ resFile = << >>

LocksFrame ==
    UNCHANGED << rlFile, finFile, queue, queueFile, sweep, undo, undoFile, undoSessions,
                 session, now, faults, swept, owed, log, peeked, prompts, active,
                 resFile >>

InFlight == DOMAIN tasks

\* The call the task is at, when it has one left.
AtStep(id) == tasks[id].program[tasks[id].pc]

Done(id) == tasks[id].pc > Len(tasks[id].program)

\* The task called lock() on l and has not got the guard yet.
Waiting(id, l) ==
    /\ id \in InFlight
    /\ tasks[id].asked
    /\ AtStep(id).lock = l
    /\ Head(lock[l]) # id

\* The task called lock() on l and the call has not returned yet.
Asks(id, l) ==
    /\ id \in InFlight
    /\ tasks[id].asked
    /\ AtStep(id).lock = l

\* The task holds the guard of l.
Holds(id, l) == lock[l] # << >> /\ Head(lock[l]) = id /\ ~ Asks(id, l)

\* The dispatcher or the retry timer starts a task.
StartTask(program) ==
    /\ nextId <= MaxLockTasks
    /\ tasks' = ( nextId :> [ program |-> program, pc |-> 1, asked |-> FALSE ] ) @@ tasks
    /\ nextId' = nextId + 1
    /\ hist' = << [ task |-> nextId, did |-> "start" ] >>
    /\ UNCHANGED lock
    /\ LocksFrame

\* lock() is called: the task joins those that asked for the mutex.
AskLock(id) ==
    /\ id \in InFlight
    /\ ~ Done(id)
    /\ AtStep(id).op = "acq"
    /\ ~ tasks[id].asked
    /\ lock' = [ lock EXCEPT ![AtStep(id).lock] = Append(@, id) ]
    /\ tasks' = [ tasks EXCEPT ![id].asked = TRUE ]
    /\ hist' = << [ task |-> id, did |-> "ask" ] >>
    /\ UNCHANGED nextId
    /\ LocksFrame

\* lock().await returns the guard to the task that asked first.
GetLock(id) ==
    /\ id \in InFlight
    /\ ~ Done(id)
    /\ AtStep(id).op = "acq"
    /\ tasks[id].asked
    /\ Head(lock[AtStep(id).lock]) = id
    /\ tasks' = [ tasks EXCEPT ![id].asked = FALSE, ![id].pc = @ + 1 ]
    /\ hist' = << [ task |-> id, did |-> "get" ] >>
    /\ UNCHANGED << lock, nextId >>
    /\ LocksFrame

\* The guard is dropped.
DropLock(id) ==
    /\ id \in InFlight
    /\ ~ Done(id)
    /\ AtStep(id).op = "rel"
    /\ lock' = [ lock EXCEPT ![AtStep(id).lock] = Tail(@) ]
    /\ tasks' = [ tasks EXCEPT ![id].pc = @ + 1 ]
    /\ hist' = << [ task |-> id, did |-> "drop" ] >>
    /\ UNCHANGED nextId
    /\ LocksFrame

\* The task returns.
EndTask(id) ==
    /\ id \in InFlight
    /\ Done(id)
    /\ tasks' = [ i \in InFlight \ { id } |-> tasks[i] ]
    /\ hist' = << [ task |-> id, did |-> "end" ] >>
    /\ UNCHANGED << lock, nextId >>
    /\ LocksFrame

TaskStep(id) == AskLock(id) \/ GetLock(id) \/ DropLock(id) \/ EndTask(id)

LocksNext ==
    \/ \E program \in LockPrograms : StartTask(program)
    \/ \E id \in 1..MaxLockTasks : AskLock(id)
    \/ \E id \in 1..MaxLockTasks : GetLock(id)
    \/ \E id \in 1..MaxLockTasks : DropLock(id)
    \/ \E id \in 1..MaxLockTasks : EndTask(id)

\* The runtime goes on polling every task that can go on, and a mutex hands
\* its guard over in the order of the lock() calls.
SpecLocks ==
    LocksInit /\ [][LocksNext]_vars /\ \A id \in 1..MaxLockTasks : WF_vars(TaskStep(id))

\* The pairs (held, asked for) the handlers may show.
LockOrder == { << "undo", "write" >>, << "undo", "queue" >> }

\* Some task in flight can take its next step.
SomeTaskCanStep ==
    \E id \in InFlight : \A l \in Locks : ~ Waiting(id, l)

\* C39: the handlers and the sweep never deadlock on the process locks: a
\* lock is asked for while another is held only in the order undo before
\* write and undo before queue, whenever tasks are in flight one of them
\* can go on, and every task that waits for a lock gets it in the end.
C39_NoDeadlock ==
    /\ [] ( \A id \in InFlight : \A h, l \in Locks :
              ( Holds(id, h) /\ Asks(id, l) ) => << h, l >> \in LockOrder )
    /\ [] ( InFlight # { } => SomeTaskCanStep )
    /\ \A id \in 1..MaxLockTasks : \A l \in Locks :
          Waiting(id, l) ~> ( id \in InFlight /\ Holds(id, l) )

\* A task waits for the write lock while it holds the undo lock, and another
\* task holds the write lock.
C39_Witness ==
    \E id \in InFlight :
        /\ Holds(id, "undo")
        /\ Waiting(id, "write")
        /\ \E other \in InFlight : other # id /\ Holds(other, "write")

----------------------------------------------------------------------------
(* SpecFinishUndo: a List session on MaxFinishEntries entries with a link  *)
(* each; the user finishes entries, at once or with a title, and takes the *)
(* finishes back with the undo button of their records.                    *)

MaxFinishEntries == 2

\* The undo records made in a behaviour of SpecFinishUndo.
MaxFinishes == 2

FinishEntries == SubSeq(RemovalEntries, 1, MaxFinishEntries)

FinishUndoInit ==
    /\ rlFile = write_entries(<< >>, FinishEntries)
    /\ finFile = << >>
    /\ queue = << >>
    /\ queueFile = << >>
    /\ sweep = Idle
    /\ undo = << >>
    /\ undoFile = << >>
    /\ undoSessions = { }
    /\ session = ListSession("List", read_entries(rlFile).entries, Menu, { })
    /\ now = 0
    /\ nextId = 1
    /\ faults = 0
    /\ hist = << >>
    /\ swept = << >>
    /\ owed = << >>
    /\ log = << >>
    /\ lock = "free"
    /\ tasks = << >>
    /\ peeked = { }
    /\ prompts = << >>
    /\ active = 0
    /\ resFile = << >>

FinishUndoCallbacks ==
    { Callback(a, 0) : a \in { "top", "back", "finish", "finish_cancel", "finish_now" } }
    \cup { Callback("pick", n) : n \in 1..MaxFinishEntries }

\* handle_list_callback for the callback cb; the user presses no button
\* while the prompt for a title is pending.
FinishUndoStep(cb) ==
    /\ session.open
    /\ prompts = << >>
    /\ cb.action = "finish" => nextId <= MaxFinishes
    /\ ListRun(session, cb, peeked, "cb")
    /\ UNCHANGED << sweep, undoSessions, now, swept, log, lock, tasks, prompts, active,
                    resFile >>

FinishUndoNext ==
    \/ \E cb \in FinishUndoCallbacks : FinishUndoStep(cb)
    \/ FinishTitle
    \/ \E title \in Titles : FinishTitleResponse(title)
    \/ \E id \in 1..MaxFinishes : Undo(id, "undo")

SpecFinishUndo == FinishUndoInit /\ [][FinishUndoNext]_vars

\* C40: undoing the record of a finish (finish_now, or finish with a title)
\* leaves the read-later store and the finished store with the sets of
\* block strings they had before the finish; here for the first finish of a
\* behaviour, before which the stores are as they were at the start.
C40_UndoRestoresStores ==
    ( /\ Len(hist) = 1
      /\ hist[1].handler = "undo"
      /\ hist[1].out = "Applied"
      /\ nextId = 2 )
    => /\ BlockSet(rlFile) = { block_string(FinishEntries[i]) : i \in 1..MaxFinishEntries }
       /\ BlockSet(finFile) = { }

====
